---- MODULE Spec2Model ----
(***************************************************************************)
(* Verification model of the proxy pool, the failover (health) tracker and *)
(* the search path of the answer service.                                  *)
(*                                                                         *)
(*   services/failover_manager.py   FailoverManager                        *)
(*   config/api_proxy_pool.py       ApiProxyPool                           *)
(*   services/cache.py              RedisCache                             *)
(*   utils/utils.py                 SimpleCache, extract_answer            *)
(*   app.py                         search                                 *)
(*                                                                         *)
(* Time is the wall clock in seconds (time.time() / datetime.now()).       *)
(***************************************************************************)
EXTENDS Integers, Sequences, FiniteSets, TLC

VARIABLES
    now,             \* wall clock, seconds
    enabled,         \* FailoverManager.enabled
    proxy_health,    \* FailoverManager.proxy_health   : name -> health record
    failure_counts,  \* FailoverManager.failure_counts : name -> list of failures
    success_counts,  \* FailoverManager.success_counts : name -> list of successes
    response_times,  \* FailoverManager.response_times : name -> list of samples
    lock,            \* FailoverManager.lock (threading.Lock, not reentrant)
    all_pc,          \* position of the thread inside get_all_health_status
    all_pending,     \* names get_all_health_status still has to visit
    all_result,      \* snapshots get_all_health_status has collected
    proxies,         \* ApiProxyPool.proxies
    load_pc,         \* position of the thread inside load_proxies
    load_source,     \* proxy_configs that thread iterates over
    load_i,          \* index of the next proxy_config
    load_prev,       \* history: the list in force when that load began
    enable_cache,    \* Config.ENABLE_CACHE
    openai_api_base, \* Config.OPENAI_API_BASE
    redis_store,     \* the Redis keys behind RedisCache: key -> value, expiry
    db,              \* QARecord rows: (question, type, options) -> answer
    upstream_log,    \* the POSTs to .../chat/completions issued so far
    cache_ready,     \* app.cache is a RedisCache (TRUE) or None (FALSE)
    redis_failing,   \* the Redis commands that raise at present
    simple_cache,    \* SimpleCache.cache: key -> (timestamp, value)
    switch_pc,       \* position of each thread inside KeySwitcher.switch_key
    key_switch_lock, \* key_switcher.key_switch_lock: "free" or its holder
    last_switch_time,\* key_switcher.last_switch_time (seconds since the epoch)
    cooldown_factor, \* key_switcher.cooldown_factor, in tenths
    ip_access,       \* app.ip_access: window key -> count
    rate_pc,         \* position and locals of each thread inside rate_limit
    handled,         \* history: window key -> calls of the wrapped handler
    config_file,     \* third_party_apis of config.json
    manage_pc,       \* position and locals of each thread inside a proxy route
    manage_log,      \* history: request -> "new", "running", "ok" or "failed"
    health_check_results, \* proxy_management.health_check_results
    health_check_timer,   \* the health_check_loop thread: "none" or "alive"
    health_pending,  \* the check_proxy_health threads that still run
    current_key,     \* KeySwitcher.current_key
    api_key,         \* openai.api_key of config.json
    used_keys,       \* KeySwitcher.used_keys
    token_details_cache, \* key_switcher.token_details_cache
    ret              \* the last call and what it returned

trackerVars == <<enabled, proxy_health, failure_counts, success_counts,
                 response_times, lock, all_pc, all_pending, all_result>>

poolVars == <<proxies, load_pc, load_source, load_i, load_prev>>

cacheVars == <<cache_ready, redis_failing, simple_cache>>

searchVars == <<enable_cache, openai_api_base, redis_store, db, upstream_log,
                cacheVars>>

switcherVars == <<switch_pc, key_switch_lock, last_switch_time,
                  cooldown_factor>>

\* the state of the services beside tracker, pool and search
rateVars == <<ip_access, rate_pc, handled>>

manageVars == <<config_file, manage_pc, manage_log>>

healthVars == <<health_check_results, health_check_timer, health_pending>>

tokenVars == <<current_key, api_key, used_keys, token_details_cache>>

serviceVars == <<switcherVars, rateVars, manageVars, healthVars, tokenVars>>

vars == <<now, trackerVars, poolVars, searchVars, serviceVars, ret>>

----------------------------------------------------------------------------
(* Bounds of the model                                                     *)

MaxTime == 750
TickStep == 150
MaxRecords == 4
MaxBurstRecords == 11
StatusHorizon == 300
MaxStatusRecords == 2
MaxDispatchRecords == 3
MaxUpstreamCalls == 2
DispatchHorizon == 150
SearchHorizon == 600
CacheHorizon == 600
MaxCacheEntries == 1
\* seconds a SimpleCache entry lives: the expiration_seconds the cache is
\* constructed with (86400 when not given); here a value the clock passes
SimpleExpiration == 300
\* longest response handed to extract_answer
MaxResponseLen == 3
\* the clock beside the key switcher: seconds per step, last instant
SwitchTickStep == 2
SwitchHorizon == 8
\* time.time() at the start of the process; at least max_cooldown
StartEpoch == 1000
\* longest token list, a remaining quota below the threshold, and the clock
\* beside the token cache
MaxTokens == 2
LowQuota == 100
TokenTickStep == 60
TokenHorizon == 60
\* rate_limit(limit, period) as a route is decorated with it, and the clock
\* beside it
RateLimit == 2
RatePeriod == 60
RateTickStep == 30
RateHorizon == 90
\* seconds an answer stays cached: Config.CACHE_EXPIRATION is read from
\* config.json (2592000 when absent); here a value the clock passes
CACHE_EXPIRATION == 450

(* Program constants                                                       *)

max_failures == 3
failure_window == 300
recovery_time == 600
min_requests_for_circuit_breaker == 10
MaxResponseTimes == 100
\* key_switcher: seconds, and the factor 1.0 / its step 0.2 / its cap 3.0
\* in tenths
base_cooldown == 5
max_cooldown == 30
InitialCooldownFactor == 10
CooldownFactorStep == 2
MaxCooldownFactor == 30

\* response_time = None
NoResponseTime == -1

TrackerNames == {"A", "B"}
BurstNames == {"A"}
DispatchNames == {"A", "B"}

\* response_time arguments of record_success (milliseconds)
ResponseTimeInputs == {NoResponseTime, 120}

----------------------------------------------------------------------------
(* Python dict helpers                                                     *)

EmptyDict == [x \in {} |-> 0]

Has(d, k) == k \in DOMAIN d

Put(d, k, v) == [x \in DOMAIN d \cup {k} |-> IF x = k THEN v ELSE d[x]]

Del(d, k) == [x \in DOMAIN d \ {k} |-> d[x]]

GetOr(d, k, default) == IF k \in DOMAIN d THEN d[k] ELSE default

----------------------------------------------------------------------------
(* FailoverManager                                                         *)

\* [e for e in entries if e['time'] > cutoff_time]
RecentEntries(entries, cutoff_time) ==
    SelectSeq(entries, LAMBDA e : e.time > cutoff_time)

\* self.response_times[proxy_name][-100:]
LastSamples(samples) ==
    IF Len(samples) > MaxResponseTimes
    THEN SubSeq(samples, Len(samples) - MaxResponseTimes + 1, Len(samples))
    ELSE samples

SuccessListAfter(proxy_name, response_time) ==
    RecentEntries(
        Append(GetOr(success_counts, proxy_name, <<>>),
               [time |-> now, response_time |-> response_time]),
        now - failure_window)

RecordSuccess(proxy_name, response_time) ==
    /\ lock = "free"
    /\ success_counts' = Put(success_counts, proxy_name,
                             SuccessListAfter(proxy_name, response_time))
    /\ response_times' =
         IF response_time # NoResponseTime
         THEN Put(response_times, proxy_name,
                  LastSamples(Append(GetOr(response_times, proxy_name, <<>>),
                                     [time |-> now,
                                      response_time |-> response_time])))
         ELSE response_times
    /\ proxy_health' = Put(proxy_health, proxy_name,
         [status |-> "healthy",
          last_success |-> now,
          consecutive_failures |-> 0,
          total_successes |-> Len(SuccessListAfter(proxy_name, response_time))])
    /\ ret' = [op |-> "record_success", proxy |-> proxy_name, value |-> TRUE]
    /\ UNCHANGED <<now, serviceVars, poolVars, searchVars, enabled, failure_counts, lock, all_pc, all_pending,
                   all_result>>

FailureListAfter(proxy_name) ==
    RecentEntries(
        Append(GetOr(failure_counts, proxy_name, <<>>), [time |-> now]),
        now - failure_window)

\* variant: the counter is taken from the failures inside the window
ConsecutiveFromWindow(proxy_name) ==
    Len(FailureListAfter(proxy_name))

\* self.proxy_health.get(proxy_name, {}).get('consecutive_failures', 0) + 1
ConsecutiveAfterFailure(proxy_name) ==
    GetOr(GetOr(proxy_health, proxy_name, EmptyDict),
          "consecutive_failures", 0) + 1

RecordFailure(proxy_name) ==
    /\ lock = "free"
    /\ failure_counts' = Put(failure_counts, proxy_name,
                             FailureListAfter(proxy_name))
    /\ proxy_health' = Put(proxy_health, proxy_name,
         [status |-> IF Len(FailureListAfter(proxy_name)) >= max_failures
                     THEN "unhealthy" ELSE "degraded",
          last_failure |-> now,
          consecutive_failures |-> ConsecutiveAfterFailure(proxy_name),
          recent_failures |-> Len(FailureListAfter(proxy_name))])
    /\ ret' = [op |-> "record_failure", proxy |-> proxy_name, value |-> TRUE]
    /\ UNCHANGED <<now, serviceVars, poolVars, searchVars, enabled, success_counts, response_times, lock, all_pc,
                   all_pending, all_result>>

RecentFailures(proxy_name) ==
    Len(RecentEntries(GetOr(failure_counts, proxy_name, <<>>),
                      now - failure_window))

RecentSuccesses(proxy_name) ==
    Len(RecentEntries(GetOr(success_counts, proxy_name, <<>>),
                      now - failure_window))

\* failure_rate >= circuit_breaker_threshold (0.5), in integers:
\* recent_failures / total_requests >= 1/2
IsCircuitBreakerOpen(proxy_name) ==
    LET total_requests == RecentFailures(proxy_name)
                            + RecentSuccesses(proxy_name)
    IN  IF total_requests < min_requests_for_circuit_breaker
        THEN FALSE
        ELSE 2 * RecentFailures(proxy_name) >= total_requests

\* variant: recovery starts at recovery_time sharp (>= for >)
EntersRecoveryAtRecoveryTime(proxy_name) ==
    /\ Has(proxy_health, proxy_name)
    /\ proxy_health[proxy_name].status = "unhealthy"
    /\ Has(proxy_health[proxy_name], "last_failure")
    /\ now - proxy_health[proxy_name].last_failure >= recovery_time

\* the proxy is 'unhealthy' and its recovery time has passed
EntersRecovery(proxy_name) ==
    /\ Has(proxy_health, proxy_name)
    /\ proxy_health[proxy_name].status = "unhealthy"
    /\ Has(proxy_health[proxy_name], "last_failure")
    /\ now - proxy_health[proxy_name].last_failure > recovery_time

\* variant: only the stored status decides, neither the breaker nor the
\* failures inside the window are looked at
IsProxyHealthyByStatus(proxy_name) ==
    IF ~enabled THEN TRUE
    ELSE IF Has(proxy_health, proxy_name)
            /\ proxy_health[proxy_name].status = "unhealthy"
         THEN now - proxy_health[proxy_name].last_failure > recovery_time
    ELSE TRUE

\* what is_proxy_healthy(proxy_name) returns in the current state
IsProxyHealthyValue(proxy_name) ==
    IF ~enabled THEN TRUE
    ELSE IF Has(proxy_health, proxy_name)
            /\ proxy_health[proxy_name].status = "unhealthy"
         THEN EntersRecovery(proxy_name)
    ELSE IF IsCircuitBreakerOpen(proxy_name) THEN FALSE
    ELSE IF Has(failure_counts, proxy_name)
         THEN RecentFailures(proxy_name) < max_failures
    ELSE TRUE

\* proxy_health after is_proxy_healthy has been called for every name of names
HealthAfterCheck(names) ==
    [p \in DOMAIN proxy_health |->
        IF enabled /\ p \in names /\ EntersRecovery(p)
        THEN [proxy_health[p] EXCEPT !.status = "recovering"]
        ELSE proxy_health[p]]

IsProxyHealthy(proxy_name) ==
    /\ enabled => lock = "free"
    /\ proxy_health' = HealthAfterCheck({proxy_name})
    /\ ret' = [op |-> "is_proxy_healthy", proxy |-> proxy_name,
               value |-> IsProxyHealthyValue(proxy_name)]
    /\ UNCHANGED <<now, serviceVars, poolVars, searchVars, enabled, failure_counts, success_counts,
                   response_times, lock, all_pc, all_pending, all_result>>

\* get_healthy_proxies: is_proxy_healthy is asked for each name in turn
GetHealthyProxies(proxy_names) ==
    /\ enabled => lock = "free"
    /\ proxy_health' = HealthAfterCheck({proxy_names[i] : i \in DOMAIN proxy_names})
    /\ ret' = [op |-> "get_healthy_proxies", proxy |-> "",
               value |-> SelectSeq(proxy_names, IsProxyHealthyValue)]
    /\ UNCHANGED <<now, serviceVars, poolVars, searchVars, enabled, failure_counts, success_counts,
                   response_times, lock, all_pc, all_pending, all_result>>

EnableFailover ==
    /\ lock = "free"
    /\ enabled' = TRUE
    /\ ret' = [op |-> "enable_failover", proxy |-> "", value |-> TRUE]
    /\ UNCHANGED <<now, serviceVars, poolVars, searchVars, proxy_health, failure_counts, success_counts,
                   response_times, lock, all_pc, all_pending, all_result>>

DisableFailover ==
    /\ lock = "free"
    /\ enabled' = FALSE
    /\ ret' = [op |-> "disable_failover", proxy |-> "", value |-> TRUE]
    /\ UNCHANGED <<now, serviceVars, poolVars, searchVars, proxy_health, failure_counts, success_counts,
                   response_times, lock, all_pc, all_pending, all_result>>

ToggleFailover ==
    /\ lock = "free"
    /\ enabled' = ~enabled
    /\ ret' = [op |-> "toggle_failover", proxy |-> "", value |-> ~enabled]
    /\ UNCHANGED <<now, serviceVars, poolVars, searchVars, proxy_health, failure_counts, success_counts,
                   response_times, lock, all_pc, all_pending, all_result>>

RECURSIVE SumResponseTimes(_)
SumResponseTimes(samples) ==
    IF samples = <<>> THEN 0
    ELSE Head(samples).response_time + SumResponseTimes(Tail(samples))

\* the samples get_proxy_health_status averages
RecentResponseTimes(proxy_name) ==
    SelectSeq(GetOr(response_times, proxy_name, <<>>),
              LAMBDA rt : rt.time > now - failure_window
                          /\ rt.response_time # NoResponseTime)

\* the dict get_proxy_health_status returns; success_rate and
\* avg_response_time are floats in the code, here their integer part
HealthStatus(proxy_name) ==
    IF ~Has(proxy_health, proxy_name)
    THEN [status |-> "unknown",
          consecutive_failures |-> 0,
          recent_failures |-> 0,
          recent_successes |-> 0,
          success_rate |-> 0,
          avg_response_time |-> 0,
          circuit_breaker_open |-> FALSE]
    ELSE LET total_requests == RecentFailures(proxy_name)
                                 + RecentSuccesses(proxy_name)
             computed ==
               [recent_failures |-> RecentFailures(proxy_name),
                recent_successes |-> RecentSuccesses(proxy_name),
                success_rate |->
                  IF total_requests > 0
                  THEN (RecentSuccesses(proxy_name) * 100) \div total_requests
                  ELSE 0,
                avg_response_time |->
                  IF RecentResponseTimes(proxy_name) # <<>>
                  THEN SumResponseTimes(RecentResponseTimes(proxy_name))
                         \div Len(RecentResponseTimes(proxy_name))
                  ELSE 0,
                circuit_breaker_open |-> IsCircuitBreakerOpen(proxy_name)]
         IN  \* health_info = self.proxy_health[proxy_name].copy(), then the
             \* computed keys are written over it
             [k \in DOMAIN proxy_health[proxy_name] \cup DOMAIN computed |->
                IF k \in DOMAIN computed THEN computed[k]
                ELSE proxy_health[proxy_name][k]]

\* get_proxy_health_status takes the lock itself (`with self.lock`), whether
\* it is called directly or from inside get_all_health_status
GetProxyHealthStatus(proxy_name) ==
    /\ lock = "free"
    /\ \/ /\ all_pc = "idle"
          /\ ret' = [op |-> "get_proxy_health_status", proxy |-> proxy_name,
                     value |-> HealthStatus(proxy_name)]
          /\ UNCHANGED <<all_pc, all_pending, all_result>>
       \/ /\ all_pc = "calling"
          /\ proxy_name \in all_pending
          /\ all_result' = Put(all_result, proxy_name, HealthStatus(proxy_name))
          /\ all_pending' = all_pending \ {proxy_name}
          /\ all_pc' = "locked"
          /\ UNCHANGED ret
    /\ lock' = "free"
    /\ UNCHANGED <<now, serviceVars, poolVars, searchVars, enabled, proxy_health, failure_counts, success_counts,
                   response_times>>

\* get_all_health_status: `with self.lock:` is entered
GetAllHealthStatusEnter ==
    /\ lock = "free"
    /\ all_pc = "idle"
    /\ lock' = "held"
    /\ all_pc' = "locked"
    /\ all_pending' = DOMAIN proxy_health
    /\ all_result' = EmptyDict
    /\ UNCHANGED <<now, serviceVars, poolVars, searchVars, enabled, proxy_health, failure_counts, success_counts,
                   response_times, ret>>

\* get_all_health_status, holding the lock: the dict comprehension calls
\* get_proxy_health_status for the next name, or the call returns
GetAllHealthStatusStep ==
    /\ all_pc = "locked"
    /\ IF all_pending = {}
       THEN /\ ret' = [op |-> "get_all_health_status", proxy |-> "",
                       value |-> [enabled |-> enabled, proxies |-> all_result]]
            /\ lock' = "free"
            /\ all_pc' = "idle"
       ELSE /\ all_pc' = "calling"
            /\ UNCHANGED <<ret, lock>>
    /\ UNCHANGED <<now, serviceVars, poolVars, searchVars, enabled, proxy_health, failure_counts, success_counts,
                   response_times, all_pending, all_result>>

ResetProxyHealth(proxy_name) ==
    /\ lock = "free"
    /\ proxy_health' = Del(proxy_health, proxy_name)
    /\ failure_counts' = Del(failure_counts, proxy_name)
    /\ ret' = [op |-> "reset_proxy_health", proxy |-> proxy_name, value |-> TRUE]
    /\ UNCHANGED <<now, serviceVars, poolVars, searchVars, enabled, success_counts, response_times, lock, all_pc,
                   all_pending, all_result>>

ResetAllHealth ==
    /\ lock = "free"
    /\ proxy_health' = EmptyDict
    /\ failure_counts' = EmptyDict
    /\ ret' = [op |-> "reset_all_health", proxy |-> "", value |-> TRUE]
    /\ UNCHANGED <<now, serviceVars, poolVars, searchVars, enabled, success_counts, response_times, lock, all_pc,
                   all_pending, all_result>>

\* the clock advances (up to the model's horizon)
Tick(horizon) ==
    /\ now + TickStep <= horizon
    /\ now' = now + TickStep
    /\ UNCHANGED <<trackerVars, poolVars, searchVars, serviceVars, ret>>

----------------------------------------------------------------------------
(* ApiProxyPool                                                            *)

\* Optional[...] results
None == <<>>
Some(x) == <<x>>

\* proxy descriptors as they may stand in config.json / Config.THIRD_PARTY_APIS
CfgA == [name |-> "A", api_base |-> "https://a", api_keys |-> <<"ka">>,
         model |-> "m1", models |-> <<"m1">>, is_active |-> TRUE,
         priority |-> 1]
CfgB == [name |-> "B", api_base |-> "https://b", api_keys |-> <<"kb">>,
         model |-> "m1", models |-> <<"m1", "m2">>, is_active |-> TRUE,
         priority |-> 2]
CfgC == [name |-> "C", api_base |-> "https://c", api_keys |-> <<"kc">>,
         model |-> "m2", models |-> <<"m2">>, is_active |-> TRUE,
         priority |-> 3]
\* switched off, and first in priority
CfgD == [name |-> "D", api_base |-> "https://d", api_keys |-> <<"kd">>,
         model |-> "m3", models |-> <<"m3">>, is_active |-> FALSE,
         priority |-> 0]
\* no priority and no is_active key: the defaults apply
CfgE == [name |-> "E", api_base |-> "https://e", api_keys |-> <<"ke">>,
         model |-> "m1", models |-> <<"m1">>]
CfgNoName == [api_base |-> "https://x", api_keys |-> <<"kx">>,
              model |-> "m1", models |-> <<"m1">>, priority |-> 1]
CfgNoBase == [name |-> "X", api_keys |-> <<"kx">>,
              model |-> "m1", models |-> <<"m1">>, priority |-> 1]
CfgNoKeys == [name |-> "X", api_base |-> "https://x", api_keys |-> <<>>,
              model |-> "m1", models |-> <<"m1">>, priority |-> 1]
CfgNoModels == [name |-> "X", api_base |-> "https://x", api_keys |-> <<"kx">>,
                model |-> "m1", models |-> <<>>, priority |-> 1]
\* an entry of the list that is no JSON object (proxy_config.get raises)
CfgNotADict == [json_type |-> "string"]

IsDict(proxy_config) == "json_type" \notin DOMAIN proxy_config

\* the list of the deployment the process starts with
InitialSource == <<CfgC, CfgD, CfgA, CfgB>>

\* what a (re)load may find as third_party_apis
Sources ==
    { InitialSource,
      <<CfgB, CfgA>>,
      <<CfgE, CfgD>>,
      <<>>,
      <<CfgB, CfgNoName>>,
      <<CfgNoBase, CfgC>>,
      <<CfgNoKeys>>,
      <<CfgA, CfgNoModels>>,
      <<CfgC, CfgNotADict, CfgA>>,
      <<CfgC, CfgE, CfgA>> }

\* ApiProxy(name=proxy_config.get('name', 'Unknown API'), ...)
ApiProxy(proxy_config) ==
    [name |-> GetOr(proxy_config, "name", "Unknown API"),
     api_base |-> GetOr(proxy_config, "api_base", ""),
     api_keys |-> GetOr(proxy_config, "api_keys", <<>>),
     model |-> GetOr(proxy_config, "model", ""),
     models |-> GetOr(proxy_config, "models", <<>>),
     is_active |-> GetOr(proxy_config, "is_active", TRUE),
     priority |-> GetOr(proxy_config, "priority", 1)]

\* variant: x goes before the elements of its own priority (ties reversed)
InsertBeforeEqual(sorted, x) ==
    LET before == SelectSeq(sorted, LAMBDA y : y.priority < x.priority)
        after == SelectSeq(sorted, LAMBDA y : y.priority >= x.priority)
    IN  before \o <<x>> \o after

\* x goes behind every element whose priority is not larger (stable)
InsertByPriority(sorted, x) ==
    LET before == SelectSeq(sorted, LAMBDA y : y.priority <= x.priority)
        after == SelectSeq(sorted, LAMBDA y : y.priority > x.priority)
    IN  before \o <<x>> \o after

RECURSIVE SortFrom(_, _)
SortFrom(sorted, rest) ==
    IF rest = <<>> THEN sorted
    ELSE SortFrom(InsertByPriority(sorted, Head(rest)), Tail(rest))

\* self.proxies.sort(key=lambda x: x.priority); list.sort is stable
SortByPriority(list) == SortFrom(<<>>, list)

\* load_proxies: self.proxies = []
LoadProxiesBegin(proxy_configs) ==
    /\ load_pc = "idle"
    /\ load_prev' = proxies
    /\ proxies' = <<>>
    /\ load_source' = proxy_configs
    /\ load_i' = 1
    /\ load_pc' = "appending"
    /\ UNCHANGED <<now, serviceVars, trackerVars, searchVars, ret>>

\* load_proxies: one turn of `for proxy_config in proxy_configs`; an entry
\* that is no dict raises, and the handler leaves self.proxies = []
LoadProxiesAppend ==
    /\ load_pc = "appending"
    /\ load_i <= Len(load_source)
    /\ IF IsDict(load_source[load_i])
       THEN /\ proxies' = Append(proxies, ApiProxy(load_source[load_i]))
            /\ load_i' = load_i + 1
            /\ UNCHANGED <<load_pc, ret>>
       ELSE /\ proxies' = <<>>
            /\ load_pc' = "idle"
            /\ ret' = [op |-> "reload_config", proxy |-> "", value |-> FALSE]
            /\ UNCHANGED load_i
    /\ UNCHANGED <<now, serviceVars, trackerVars, searchVars, load_source, load_prev>>

\* load_proxies: the list is sorted and the call returns
LoadProxiesSort ==
    /\ load_pc = "appending"
    /\ load_i > Len(load_source)
    /\ proxies' = SortByPriority(proxies)
    /\ load_pc' = "idle"
    /\ ret' = [op |-> "reload_config", proxy |-> "", value |-> TRUE]
    /\ UNCHANGED <<now, serviceVars, trackerVars, searchVars, load_source, load_i, load_prev>>

\* self.proxies after a whole, undisturbed load_proxies of proxy_configs
LoadResult(proxy_configs) ==
    IF \E i \in DOMAIN proxy_configs : ~IsDict(proxy_configs[i])
    THEN <<>>
    ELSE SortByPriority([i \in DOMAIN proxy_configs |->
                            ApiProxy(proxy_configs[i])])

\* variant: the is_active filter is left out
AllOf(list) == list

\* [proxy for proxy in self.proxies if proxy.is_active]
ActiveOf(list) == SelectSeq(list, LAMBDA proxy : proxy.is_active)

PrimaryOf(list) ==
    IF ActiveOf(list) # <<>> THEN Some(ActiveOf(list)[1]) ELSE None

NextOf(list, exclude_names) ==
    LET candidates == SelectSeq(ActiveOf(list),
                                LAMBDA proxy : proxy.name \notin exclude_names)
    IN  IF candidates # <<>> THEN Some(candidates[1]) ELSE None

InList(x, list) == \E i \in DOMAIN list : list[i] = x

\* variant: the models filter is left out
ForModelUnfilteredOf(list, model) == PrimaryOf(list)

ForModelOf(list, model) ==
    LET supporting == SelectSeq(ActiveOf(list),
                                LAMBDA proxy : InList(model, proxy.models))
    IN  IF supporting # <<>> THEN Some(supporting[1]) ELSE PrimaryOf(list)

GetActiveProxies ==
    /\ ret' = [op |-> "get_active_proxies", proxy |-> "",
               value |-> ActiveOf(proxies)]
    /\ UNCHANGED <<now, serviceVars, trackerVars, poolVars, searchVars>>

GetPrimaryProxy ==
    /\ ret' = [op |-> "get_primary_proxy", proxy |-> "",
               value |-> PrimaryOf(proxies)]
    /\ UNCHANGED <<now, serviceVars, trackerVars, poolVars, searchVars>>

GetNextProxy(exclude_names) ==
    /\ ret' = [op |-> "get_next_proxy", proxy |-> "", arg |-> exclude_names,
               value |-> NextOf(proxies, exclude_names)]
    /\ UNCHANGED <<now, serviceVars, trackerVars, poolVars, searchVars>>

GetProxyForModel(model) ==
    /\ ret' = [op |-> "get_proxy_for_model", proxy |-> "", arg |-> model,
               value |-> ForModelOf(proxies, model)]
    /\ UNCHANGED <<now, serviceVars, trackerVars, poolVars, searchVars>>

ModelInputs == {"m1", "m2", "m9"}
ExcludeInputs == {{}, {"A"}, {"A", "B"}, {"E"}}

----------------------------------------------------------------------------
(* Text: a Python str is the sequence of its characters                    *)

Lowers == <<"a", "b", "c", "d", "e", "f", "g", "h", "i", "j", "k", "l", "m",
            "n", "o", "p", "q", "r", "s", "t", "u", "v", "w", "x", "y", "z">>
Uppers == <<"A", "B", "C", "D", "E", "F", "G", "H", "I", "J", "K", "L", "M",
            "N", "O", "P", "Q", "R", "S", "T", "U", "V", "W", "X", "Y", "Z">>

UpperChar(c) ==
    IF \E i \in DOMAIN Lowers : Lowers[i] = c
    THEN Uppers[CHOOSE i \in DOMAIN Lowers : Lowers[i] = c]
    ELSE c

LowerChar(c) ==
    IF \E i \in DOMAIN Uppers : Uppers[i] = c
    THEN Lowers[CHOOSE i \in DOMAIN Uppers : Uppers[i] = c]
    ELSE c

Upper(str) == [i \in DOMAIN str |-> UpperChar(str[i])]
Lower(str) == [i \in DOMAIN str |-> LowerChar(str[i])]

Whitespace == {" ", "\n", "\t", "\r"}

RECURSIVE LStrip(_)
LStrip(str) ==
    IF str # <<>> /\ Head(str) \in Whitespace THEN LStrip(Tail(str)) ELSE str

RECURSIVE RStrip(_)
RStrip(str) ==
    IF str # <<>> /\ str[Len(str)] \in Whitespace
    THEN RStrip(SubSeq(str, 1, Len(str) - 1))
    ELSE str

\* str.strip()
Strip(str) == RStrip(LStrip(str))

StartsWith(str, prefix) ==
    /\ Len(prefix) <= Len(str)
    /\ SubSeq(str, 1, Len(prefix)) = prefix

\* word in str
Contains(str, word) ==
    \E i \in 1..(Len(str) - Len(word) + 1) :
        SubSeq(str, i, i + Len(word) - 1) = word

\* str.split(sep), from the left, current holding the part being read
RECURSIVE SplitFrom(_, _, _)
SplitFrom(str, sep, current) ==
    IF str = <<>> THEN <<current>>
    ELSE IF StartsWith(str, sep)
         THEN <<current>>
                \o SplitFrom(SubSeq(str, Len(sep) + 1, Len(str)), sep, <<>>)
         ELSE SplitFrom(Tail(str), sep, Append(current, Head(str)))

Split(str, sep) == SplitFrom(str, sep, <<>>)

\* sep.join(parts)
RECURSIVE Join(_, _)
Join(parts, sep) ==
    IF parts = <<>> THEN <<>>
    ELSE IF Len(parts) = 1 THEN parts[1]
    ELSE parts[1] \o sep \o Join(Tail(parts), sep)

TYPE_SINGLE == <<"s", "i", "n", "g", "l", "e">>
TYPE_MULTIPLE == <<"m", "u", "l", "t", "i", "p", "l", "e">>
TYPE_JUDGEMENT == <<"j", "u", "d", "g", "e", "m", "e", "n", "t">>
TYPE_COMPLETION == <<"c", "o", "m", "p", "l", "e", "t", "i", "o", "n">>

----------------------------------------------------------------------------
(* utils.extract_answer                                                    *)

OptionLetters == {"A", "B", "C", "D", "E", "F"}

\* the characters of 'ABCDEF,#\uFF0C\u3001 '; a character outside ASCII is
\* written as its code point
LetterFormatChars == OptionLetters \cup {",", "#", "U+FF0C", "U+3001", " "}

\* re.findall(r'[A-F]', response.upper())
FindLetters(response) ==
    LET up == Upper(response)
        hits == SelectSeq(up, LAMBDA c : c \in OptionLetters)
    IN  [i \in DOMAIN hits |-> <<hits[i]>>]

MultipleSeparators == << <<"U+3001">>, <<"U+FF1B">>, <<";">>, <<"U+548C">>, <<"U+4EE5", "U+53CA">> >>

\* [part.strip() for part in response.split(sep) if part.strip()]
StrippedParts(response, sep) ==
    LET parts == Split(response, sep)
        kept == SelectSeq(parts, LAMBDA part : Strip(part) # <<>>)
    IN  [i \in DOMAIN kept |-> Strip(kept[i])]

\* the loop over the separators of the multiple-choice branch, from separator
\* i on;
\* <<>> stands for "no return in the loop"
RECURSIVE SplitBySeparators(_, _)
SplitBySeparators(response, i) ==
    IF i > Len(MultipleSeparators) THEN None
    ELSE IF Contains(response, MultipleSeparators[i])
            /\ Len(StrippedParts(response, MultipleSeparators[i])) > 1
         THEN Some(Join(StrippedParts(response, MultipleSeparators[i]),
                        <<"#">>))
         ELSE SplitBySeparators(response, i + 1)

TrueWords == { <<"U+6B63", "U+786E">>, <<"U+5BF9">>, <<"t", "r", "u", "e">>, <<"U+221A">>,
               <<"y", "e", "s">>, <<"U+662F">> }
FalseWords == { <<"U+9519", "U+8BEF">>, <<"U+9519">>, <<"f", "a", "l", "s", "e">>,
                <<"U+00D7">>, <<"n", "o">>, <<"U+5426">> }

ExtractMultiple(response) ==
    IF /\ \A i \in DOMAIN response : UpperChar(response[i]) \in LetterFormatChars
       /\ \E i \in DOMAIN response : UpperChar(response[i]) \in OptionLetters
    THEN Join(FindLetters(response), <<"#">>)
    ELSE IF /\ ~Contains(response, <<"#">>)
            /\ \E i \in DOMAIN MultipleSeparators :
                  Contains(response, MultipleSeparators[i])
            /\ SplitBySeparators(response, 1) # None
         THEN SplitBySeparators(response, 1)[1]
         ELSE response

ExtractJudgement(response) ==
    IF \E word \in TrueWords : Contains(Lower(response), word)
    THEN <<"U+6B63", "U+786E">>
    ELSE IF \E word \in FalseWords : Contains(Lower(response), word)
         THEN <<"U+9519", "U+8BEF">>
         ELSE response

extract_answer(ai_response, question_type) ==
    IF ai_response = <<>> \/ Strip(ai_response) = <<>>
    THEN ai_response
    ELSE IF question_type = TYPE_MULTIPLE
         THEN ExtractMultiple(Strip(ai_response))
    ELSE IF question_type = TYPE_JUDGEMENT
         THEN ExtractJudgement(Strip(ai_response))
    ELSE Strip(ai_response)

\* a call of extract_answer
ExtractAnswerCall(ai_response, question_type) ==
    /\ ret' = [op |-> "extract_answer", proxy |-> "",
               arg |-> [ai_response |-> ai_response,
                        question_type |-> question_type],
               value |-> extract_answer(ai_response, question_type)]
    /\ UNCHANGED <<now, serviceVars, trackerVars, poolVars, searchVars>>

\* responses of a model to a multiple-choice question: option letters,
\* ',', U+FF1B (fullwidth semicolon), U+3001 (ideographic comma), space
ResponseChars == {"A", "B", ",", "U+FF1B", "U+3001", " "}
Responses == UNION {[1..n -> ResponseChars] : n \in 0..MaxResponseLen}
ResponseTypes == {TYPE_MULTIPLE, TYPE_SINGLE}

\* responses of a model to a true/false question: the words of both lists,
\* in other letter cases, inside blanks, inside longer answers, and answers
\* with none of the words; U+4E0D is the negation "not"
JudgementResponses ==
    TrueWords \cup FalseWords
    \cup { <<"T", "R", "U", "E">>, <<"Y", "e", "s">>, <<"N", "O">>,
          <<"F", "a", "l", "s", "e">>,
          <<" ", "U+5BF9", "\n">>, <<"\t", "n", "o", " ">>,
          <<"U+4E0D", "U+5BF9">>, <<"U+4E0D", "U+662F">>,
          <<"U+4E0D", "U+6B63", "U+786E">>,
          <<"k", "n", "o", "w">>, <<"n", "o", "t", " ", "t", "r", "u", "e">>,
          <<"y", "e", "s", " ", "n", "o">>,
          <<"m", "a", "y", "b", "e">>, <<" ", "o", "k", " ">>,
          <<>>, <<" ">>, <<"\n", " ">> }
JudgementTypes == {TYPE_JUDGEMENT, TYPE_COMPLETION}

----------------------------------------------------------------------------
(* RedisCache: a key lives in Redis until its TTL has run out              *)

\* the argument None (an Optional result None is the empty tuple above)
PyNone == <<"None">>

\* x or ''
OrEmpty(x) == IF x = PyNone THEN <<>> ELSE x

\* f"{question}_{question_type or ''}_{options or ''}"; the MD5 digest of it
\* is taken to be one-to-one
CacheKey(question, question_type, options) ==
    question \o <<"_">> \o OrEmpty(question_type) \o <<"_">>
             \o OrEmpty(options)

\* self.redis.get(key)
RedisGet(key) ==
    IF Has(redis_store, key) /\ now < redis_store[key].expires
    THEN Some(redis_store[key].value)
    ELSE None

\* RedisCache.get: `if cached: return cached`, else None
CacheGet(question, question_type, options) ==
    LET cached == RedisGet(CacheKey(question, question_type, options))
    IN  IF cached # None /\ cached[1] # <<>> THEN cached ELSE None

\* the store with the keys whose TTL has run out removed
LiveKeys ==
    [k \in {x \in DOMAIN redis_store : now < redis_store[x].expires} |->
        redis_store[k]]

\* RedisCache.set: self.redis.setex(key, self.expiration, answer)
StoreAfterSet(question, answer, question_type, options) ==
    Put(LiveKeys, CacheKey(question, question_type, options),
        [value |-> answer, expires |-> now + CACHE_EXPIRATION])

\* what a call on a cache object leaves in ret
CacheCall(op, question, question_type, options, value) ==
    [op |-> op, proxy |-> "", question |-> question, type |-> question_type,
     options |-> options, time |-> now, value |-> value]

\* RedisCache.set; a Redis that does not answer makes every call raise
RedisCacheSet(question, answer, question_type, options) ==
    /\ redis_store' = IF "set" \in redis_failing THEN redis_store
                      ELSE StoreAfterSet(question, answer, question_type,
                                         options)
    /\ ret' = [CacheCall("cache_set", question, question_type, options,
                         IF "set" \in redis_failing THEN "raised" ELSE "ok")
               EXCEPT !.proxy = "redis"]
    /\ UNCHANGED <<now, serviceVars, trackerVars, poolVars, cacheVars, enable_cache,
                   openai_api_base, db, upstream_log>>

\* RedisCache.get
RedisCacheGet(question, question_type, options) ==
    /\ ret' = [CacheCall("cache_get", question, question_type, options,
                         IF "get" \in redis_failing THEN "raised"
                         ELSE CacheGet(question, question_type, options))
               EXCEPT !.proxy = "redis"]
    /\ UNCHANGED <<now, serviceVars, trackerVars, poolVars, searchVars>>

\* RedisCache.delete: self.redis.delete(key) answers the number of keys removed
RedisCacheDelete(question, question_type, options) ==
    LET key == CacheKey(question, question_type, options)
    IN  /\ redis_store' = IF "delete" \in redis_failing THEN redis_store
                          ELSE Del(LiveKeys, key)
        /\ ret' = [CacheCall("cache_delete", question, question_type, options,
                             IF "delete" \in redis_failing THEN "raised"
                             ELSE IF Has(LiveKeys, key) THEN 1 ELSE 0)
                   EXCEPT !.proxy = "redis"]
        /\ UNCHANGED <<now, serviceVars, trackerVars, poolVars, cacheVars, enable_cache,
                       openai_api_base, db, upstream_log>>

\* RedisCache.clear: every qa_cache:* key is deleted
RedisCacheClear ==
    /\ redis_store' = IF "clear" \in redis_failing THEN redis_store
                      ELSE EmptyDict
    /\ ret' = [op |-> "cache_clear", proxy |-> "redis",
               value |-> IF "clear" \in redis_failing THEN "raised"
                         ELSE Cardinality(DOMAIN LiveKeys)]
    /\ UNCHANGED <<now, serviceVars, trackerVars, poolVars, cacheVars, enable_cache,
                   openai_api_base, db, upstream_log>>

----------------------------------------------------------------------------
(* utils.SimpleCache                                                       *)

\* str(x) inside an f-string
Str(x) == IF x = PyNone THEN <<"N", "o", "n", "e">> ELSE x

\* f"{question}|{question_type}|{options}"; the MD5 digest of it is taken to
\* be one-to-one
SimpleKey(question, question_type, options) ==
    Str(question) \o <<"|">> \o Str(question_type) \o <<"|">> \o Str(options)

\* variant: an entry is still served at its expiry instant (<= for <)
SimpleLiveAtExpiry(key) ==
    /\ Has(simple_cache, key)
    /\ now - simple_cache[key].timestamp <= SimpleExpiration

\* the entry under key is there and time.time() - timestamp < self.expiration
SimpleLive(key) ==
    /\ Has(simple_cache, key)
    /\ now - simple_cache[key].timestamp < SimpleExpiration

\* what SimpleCache.get returns
SimpleGetValue(question, question_type, options) ==
    IF SimpleLive(SimpleKey(question, question_type, options))
    THEN Some(simple_cache[SimpleKey(question, question_type, options)].value)
    ELSE None

\* SimpleCache.get: an entry found expired is deleted
SimpleCacheGet(question, question_type, options) ==
    LET key == SimpleKey(question, question_type, options)
    IN  /\ simple_cache' = IF Has(simple_cache, key) /\ ~SimpleLive(key)
                           THEN Del(simple_cache, key)
                           ELSE simple_cache
        /\ ret' = [op |-> "cache_get", proxy |-> "simple",
                   question |-> question, type |-> question_type,
                   options |-> options, time |-> now,
                   deleted |-> Has(simple_cache, key) /\ ~SimpleLive(key),
                   value |-> SimpleGetValue(question, question_type, options)]
        /\ UNCHANGED <<now, serviceVars, trackerVars, poolVars, enable_cache,
                       openai_api_base, redis_store, db, upstream_log,
                       cache_ready, redis_failing>>

\* SimpleCache.set: self.cache[key] = (time.time(), answer)
SimpleCacheSet(question, answer, question_type, options) ==
    /\ simple_cache' = Put(simple_cache,
                           SimpleKey(question, question_type, options),
                           [timestamp |-> now, value |-> answer])
    /\ ret' = [CacheCall("cache_set", question, question_type, options, "ok")
               EXCEPT !.proxy = "simple"]
    /\ UNCHANGED <<now, serviceVars, trackerVars, poolVars, enable_cache, openai_api_base,
                   redis_store, db, upstream_log, cache_ready, redis_failing>>

\* SimpleCache.clear
SimpleCacheClear ==
    /\ simple_cache' = EmptyDict
    /\ ret' = [op |-> "cache_clear", proxy |-> "simple", value |-> "ok"]
    /\ UNCHANGED <<now, serviceVars, trackerVars, poolVars, enable_cache, openai_api_base,
                   redis_store, db, upstream_log, cache_ready, redis_failing>>

\* the keys remove_expired deletes
SimpleExpiredKeys ==
    {key \in DOMAIN simple_cache :
        now - simple_cache[key].timestamp >= SimpleExpiration}

\* SimpleCache.remove_expired
SimpleCacheRemoveExpired ==
    /\ simple_cache' = [key \in DOMAIN simple_cache \ SimpleExpiredKeys |->
                           simple_cache[key]]
    /\ ret' = [op |-> "cache_remove_expired", proxy |-> "simple",
               value |-> Cardinality(SimpleExpiredKeys)]
    /\ UNCHANGED <<now, serviceVars, trackerVars, poolVars, enable_cache, openai_api_base,
                   redis_store, db, upstream_log, cache_ready, redis_failing>>

\* what the callers of the caches pass: texts that hold the separator of the
\* key, and a type that is '' or not given
RedisQuestions == { <<"a">>, <<"a", "_">> }
RedisTypes == { <<>>, <<"_">>, PyNone }
SimpleQuestions == { <<"a">>, <<"a", "|">> }
SimpleTypes == { <<>>, <<"|">>, PyNone }
CacheOptions == { <<"b">> }
CacheAnswers == { <<"x">>, <<"y">>, <<>> }

----------------------------------------------------------------------------
(* app.search                                                              *)

DefaultApiBase == "https://veloera.wei.bi"

\* lines of an upstream body as search() reads them
DeltaLine(content) == [line |-> "data", content |-> content]
DoneLine == [line |-> "done"]
PlainLine == [line |-> "other"]

\* ai_answer: the delta contents of the "data: " lines, concatenated
RECURSIVE StreamedAnswer(_)
StreamedAnswer(lines) ==
    IF lines = <<>> THEN <<>>
    ELSE (IF Head(lines).line = "data" THEN Head(lines).content ELSE <<>>)
           \o StreamedAnswer(Tail(lines))

\* what the upstream may answer to one POST
UpstreamResponses ==
    { [kind |-> "http", status |-> 200,
       lines |-> <<DeltaLine(<<" ", "x">>), DeltaLine(<<"y", "\n">>), DoneLine>>],
      [kind |-> "http", status |-> 200,
       lines |-> <<DeltaLine(<<"U+5BF9">>), DoneLine>>],
      [kind |-> "http", status |-> 200, lines |-> <<PlainLine>>],
      [kind |-> "http", status |-> 500, text |-> "upstream down"],
      [kind |-> "http", status |-> 401, text |-> "invalid key ka"],
      [kind |-> "exception", text |-> "timed out"] }

\* the upstream answers of the failover scenarios: an answer, and a failure
DispatchResponses ==
    {r \in UpstreamResponses :
        r.kind = "http" /\ (r.status = 200 => r.lines[1] = DeltaLine(<<" ", "x">>))
                        /\ (r.status # 200 => r.status = 500)}

\* is_valid_record
IsValidRecord(question, question_type, options, answer) ==
    IF question = <<>> \/ question_type = <<>> \/ answer = <<>>
       \/ Strip(answer) = <<>>
    THEN FALSE
    ELSE IF Lower(question_type) \in {TYPE_SINGLE, TYPE_MULTIPLE}
         THEN options # <<>> /\ Strip(options) # <<>>
    ELSE Lower(question_type) \in {TYPE_COMPLETION, TYPE_JUDGEMENT}

SearchReturn(question, question_type, options, response, attempts) ==
    [op |-> "search", proxy |-> "", question |-> question,
     type |-> question_type, options |-> options, time |-> now,
     attempts |-> attempts, value |-> response]

\* httpx.post raised, or answered with a status other than 200
UpstreamFailed(upstream) ==
    upstream.kind = "exception" \/ upstream.status # 200

\* the JSON search() returns for such an upstream: the message holds
\* str(e), or resp.status_code and resp.text
UpstreamFailureReply(upstream) ==
    IF upstream.kind = "exception"
    THEN [code |-> 0,
          msg |-> <<"proxy API request exception", upstream.text>>]
    ELSE [code |-> 0,
          msg |-> <<"proxy API request failed", upstream.status,
                    upstream.text>>]

\* cache.<command>(...) raises: cache is None, or Redis does not answer
CacheRaises(command) == ~cache_ready \/ command \in redis_failing

\* str(e) of that exception
CacheErrorText(command) ==
    IF ~cache_ready
    THEN "'NoneType' object has no attribute"
    ELSE "redis connection error"

\* the `except Exception` around the body of search()
SearchFailed(question, question_type, options, text, attempts) ==
    SearchReturn(question, question_type, options,
                 [code |-> 0, msg |-> <<"error occurred", text>>], attempts)

\* the body of search() from the cache lookup on, for an upstream that
\* answers `upstream` if it is asked
SearchAnswer(question, question_type, options, upstream) ==
    IF enable_cache /\ CacheRaises("get")
    THEN /\ ret' = SearchFailed(question, question_type, options,
                                CacheErrorText("get"), <<>>)
         /\ UNCHANGED <<redis_store, db, upstream_log>>
    ELSE IF enable_cache /\ CacheGet(question, question_type, options) # None
    THEN /\ ret' = SearchReturn(question, question_type, options,
                     [code |-> 1, question |-> question,
                      answer |-> CacheGet(question, question_type, options)[1]],
                     <<>>)
         /\ UNCHANGED <<redis_store, db, upstream_log>>
    ELSE /\ upstream_log' = Append(upstream_log, openai_api_base)
         /\ IF UpstreamFailed(upstream)
            THEN /\ ret' = SearchReturn(question, question_type, options,
                                        UpstreamFailureReply(upstream),
                                        <<openai_api_base>>)
                 /\ UNCHANGED <<redis_store, db>>
            ELSE IF enable_cache /\ CacheRaises("set")
            THEN /\ ret' = SearchFailed(question, question_type, options,
                                        CacheErrorText("set"),
                                        <<openai_api_base>>)
                 /\ UNCHANGED <<redis_store, db>>
            ELSE LET processed_answer ==
                       extract_answer(StreamedAnswer(upstream.lines),
                                      question_type)
                 IN  /\ redis_store' =
                          IF enable_cache
                          THEN StoreAfterSet(question, processed_answer,
                                             question_type, options)
                          ELSE redis_store
                     /\ db' =
                          IF IsValidRecord(question, question_type, options,
                                           processed_answer)
                          THEN Put(db, <<question, question_type, options>>,
                                   [answer |-> processed_answer,
                                    created_at |-> now])
                          ELSE db
                     /\ ret' = SearchReturn(question, question_type, options,
                                 [code |-> 1, question |-> question,
                                  answer |-> processed_answer],
                                 <<openai_api_base>>)

\* /api/search
Search(question, question_type, options, token_ok, upstream) ==
    /\ IF ~token_ok
       THEN /\ ret' = SearchReturn(question, question_type, options,
                        [code |-> 0, msg |-> <<"invalid access token">>], <<>>)
            /\ UNCHANGED <<redis_store, db, upstream_log>>
       ELSE IF question = <<>>
       THEN /\ ret' = SearchReturn(question, question_type, options,
                        [code |-> 0, msg |-> <<"no question content">>], <<>>)
            /\ UNCHANGED <<redis_store, db, upstream_log>>
       ELSE SearchAnswer(question, question_type, options, upstream)
    /\ UNCHANGED <<now, serviceVars, trackerVars, poolVars, cacheVars, enable_cache,
                   openai_api_base>>

\* /settings: update_config sets Config.ENABLE_CACHE and Config.OPENAI_API_BASE
UpdateConfig(new_enable_cache, new_api_base) ==
    /\ enable_cache' = new_enable_cache
    /\ openai_api_base' = new_api_base
    /\ ret' = [op |-> "update_config", proxy |-> "", value |-> TRUE]
    /\ UNCHANGED <<now, serviceVars, trackerVars, poolVars, cacheVars, redis_store, db,
                   upstream_log>>

\* /api/record/update. A record is named by the (question, type, options) it
\* holds when the request arrives, which stands for its id; data holds the
\* keys of the request body. The fields are assigned and committed before the
\* cache is touched, so cache.delete and cache.set both get the new values.
UpdateRecord(record, data, token_ok) ==
    LET question == GetOr(data, "question", record[1])
        question_type == GetOr(data, "type", record[2])
        options == GetOr(data, "options", record[3])
        updated == <<question, question_type, options>>
        answer == GetOr(data, "answer",
                        IF Has(db, record) THEN db[record].answer ELSE <<>>)
        reply(ok, text) ==
            [op |-> "update_record", proxy |-> "", record |-> record,
             updated |-> updated, answer |-> answer, time |-> now,
             value |-> [success |-> ok, message |-> text]]
    IN  /\ IF ~token_ok
           THEN /\ ret' = reply(FALSE, "invalid access token")
                /\ UNCHANGED <<db, redis_store>>
           ELSE IF ~Has(db, record)
           THEN /\ ret' = reply(FALSE, "record does not exist")
                /\ UNCHANGED <<db, redis_store>>
           ELSE /\ db' = Put(Del(db, record), updated,
                             [db[record] EXCEPT !.answer = answer])
                /\ IF ~enable_cache
                   THEN /\ ret' = reply(TRUE, "record updated")
                        /\ UNCHANGED redis_store
                   ELSE IF CacheRaises("delete")
                   THEN /\ ret' = reply(FALSE, CacheErrorText("delete"))
                        /\ UNCHANGED redis_store
                   ELSE IF CacheRaises("set")
                   THEN /\ ret' = reply(FALSE, CacheErrorText("set"))
                        /\ redis_store' = Del(LiveKeys,
                              CacheKey(question, question_type, options))
                   ELSE /\ ret' = reply(TRUE, "record updated")
                        /\ redis_store' = StoreAfterSet(question, answer,
                                              question_type, options)
        /\ UNCHANGED <<now, serviceVars, trackerVars, poolVars, cacheVars, enable_cache,
                       openai_api_base, upstream_log>>

\* request bodies of /api/record/update: a key that is absent keeps the
\* record's value
UpdateInputs ==
    { EmptyDict,
      [k \in {"question"} |-> <<"r">>],
      [k \in {"question"} |-> <<"q">>],
      [k \in {"answer"} |-> <<"z">>],
      [k \in {"question", "answer"} |->
          IF k = "question" THEN <<"r">> ELSE <<"z">>] }
\* the records a request may name: the stored ones, and one that is not there
RecordInputs ==
    { <<q, TYPE_COMPLETION, <<>> >> : q \in {<<"q">>, <<"r">>, <<"s">>} }

\* Redis stops or resumes answering the given commands (no call of the
\* program: ret stays)
RedisFault(commands) ==
    /\ redis_failing' = commands
    /\ redis_failing' # redis_failing
    /\ UNCHANGED <<now, serviceVars, trackerVars, poolVars, enable_cache, openai_api_base,
                   redis_store, db, upstream_log, cache_ready, simple_cache,
                   ret>>

\* Redis answers, is down, or goes down between the get and the set of a
\* request
FaultInputs == { {}, {"get", "set", "delete", "clear"}, {"set"} }

QuestionInputs == { <<"q">>, <<>> }
TypeInputs == { TYPE_COMPLETION, TYPE_JUDGEMENT }
OptionsInputs == { <<>> }

\* the base URLs an administrator may configure for search
ApiBaseInputs == {DefaultApiBase, "https://a"}

----------------------------------------------------------------------------
(* services/key_switcher.py (src/key_switcher.py holds the same switch_key) *)

SwitchThreads == {"t1", "t2"}

\* the module-level globals after import
InitSwitcher ==
    /\ switch_pc = [t \in SwitchThreads |-> "idle"]
    /\ key_switch_lock = "free"
    /\ last_switch_time = 0
    /\ cooldown_factor = InitialCooldownFactor

\* time.time()
TimeTime == StartEpoch + now

Min(a, b) == IF a <= b THEN a ELSE b

\* min(base_cooldown * cooldown_factor, max_cooldown), in tenths of a second
ActualCooldownTenths ==
    Min(base_cooldown * cooldown_factor, max_cooldown * 10)

SwitchKeyReturn(thread, value) ==
    [op |-> "switch_key", proxy |-> "", thread |-> thread, time |-> TimeTime,
     value |-> value]

\* switch_key up to the cooldown test, which runs before the lock is taken
SwitchKeyCheck(thread) ==
    /\ switch_pc[thread] = "idle"
    /\ IF (TimeTime - last_switch_time) * 10 < ActualCooldownTenths
       THEN /\ ret' = SwitchKeyReturn(thread, FALSE)
            /\ UNCHANGED switch_pc
       ELSE /\ switch_pc' = [switch_pc EXCEPT ![thread] = "passed"]
            /\ UNCHANGED ret
    /\ UNCHANGED <<now, trackerVars, poolVars, searchVars, tokenVars, rateVars, manageVars, healthVars,
                   key_switch_lock, last_switch_time, cooldown_factor>>

\* key_switch_lock.acquire(blocking=False)
SwitchKeyAcquire(thread) ==
    /\ switch_pc[thread] = "passed"
    /\ IF key_switch_lock # "free"
       THEN /\ ret' = SwitchKeyReturn(thread, FALSE)
            /\ switch_pc' = [switch_pc EXCEPT ![thread] = "idle"]
            /\ UNCHANGED key_switch_lock
       ELSE /\ key_switch_lock' = thread
            /\ switch_pc' = [switch_pc EXCEPT ![thread] = "locked"]
            /\ UNCHANGED ret
    /\ UNCHANGED <<now, trackerVars, poolVars, searchVars, tokenVars, rateVars, manageVars, healthVars,
                   last_switch_time, cooldown_factor>>

\* the body under the lock: get_tokens, select_token and update_api_key end
\* in `outcome`; the finally clause releases the lock
SwitchKeyRun(thread, outcome) ==
    /\ switch_pc[thread] = "locked"
    /\ last_switch_time' = IF outcome = "updated" THEN TimeTime
                           ELSE last_switch_time
    /\ cooldown_factor' = IF outcome = "update_failed"
                          THEN Min(cooldown_factor + CooldownFactorStep,
                                   MaxCooldownFactor)
                          ELSE cooldown_factor
    /\ key_switch_lock' = "free"
    /\ switch_pc' = [switch_pc EXCEPT ![thread] = "idle"]
    /\ ret' = SwitchKeyReturn(thread, outcome = "updated")
    /\ UNCHANGED <<now, trackerVars, poolVars, searchVars, tokenVars, rateVars,
                   manageVars, healthVars>>

SwitchOutcomes == {"no_tokens", "no_token", "updated", "update_failed"}

\* the clock in steps of SwitchTickStep seconds
SwitchTick ==
    /\ now + SwitchTickStep <= SwitchHorizon
    /\ now' = now + SwitchTickStep
    /\ UNCHANGED <<trackerVars, poolVars, searchVars, serviceVars, ret>>

----------------------------------------------------------------------------
(* app.rate_limit: the wrapper around one route, requests of one address    *)

RateThreads == {"t1", "t2"}

InitRateLimit ==
    /\ ip_access = EmptyDict
    /\ rate_pc = [t \in RateThreads |-> [pc |-> "idle"]]
    /\ handled = EmptyDict

\* window = now // period, which names the key f'{func.__name__}:{ip}:{window}'
RateKey == TimeTime \div RatePeriod

RateReturn(thread, key, value) ==
    [op |-> "rate_limit", proxy |-> "", thread |-> thread, key |-> key,
     value |-> value]

\* the wrapper up to the test: count = ip_access.get(key, 0);
\* if count >= limit the request is answered 429
RateLimitRead(thread) ==
    /\ rate_pc[thread].pc = "idle"
    /\ IF GetOr(ip_access, RateKey, 0) >= RateLimit
       THEN /\ ret' = RateReturn(thread, RateKey, 429)
            /\ UNCHANGED rate_pc
       ELSE /\ rate_pc' = [rate_pc EXCEPT ![thread] =
                              [pc |-> "counted", key |-> RateKey,
                               count |-> GetOr(ip_access, RateKey, 0)]]
            /\ UNCHANGED ret
    /\ UNCHANGED <<now, trackerVars, poolVars, searchVars, tokenVars, switcherVars, manageVars, healthVars,
                   ip_access, handled>>

\* ip_access[key] = count + 1; return func(*args, **kwargs)
RateLimitWrite(thread) ==
    /\ rate_pc[thread].pc = "counted"
    /\ ip_access' = Put(ip_access, rate_pc[thread].key,
                        rate_pc[thread].count + 1)
    /\ handled' = Put(handled, rate_pc[thread].key,
                      GetOr(handled, rate_pc[thread].key, 0) + 1)
    /\ rate_pc' = [rate_pc EXCEPT ![thread] = [pc |-> "idle"]]
    /\ ret' = RateReturn(thread, rate_pc[thread].key, 200)
    /\ UNCHANGED <<now, trackerVars, poolVars, searchVars, tokenVars, switcherVars,
                   manageVars, healthVars>>

\* the clock in steps of RateTickStep seconds
RateTick ==
    /\ now + RateTickStep <= RateHorizon
    /\ now' = now + RateTickStep
    /\ UNCHANGED <<trackerVars, poolVars, searchVars, serviceVars, ret>>

----------------------------------------------------------------------------
(* routes/proxy_management.py: add, update, delete, toggle-status           *)

ManageThreads == {"t1", "t2"}

\* the request bodies sent to the four routes, each at most once
ManageRequests ==
    { [route |-> "add", name |-> "N"],
      [route |-> "update", name |-> "C"],
      [route |-> "delete", name |-> "A"],
      [route |-> "toggle", name |-> "B"] }

\* 'priority' of the body sent to /api/proxy/update
UpdatedPriority == 5

InitManage(config) ==
    /\ config_file = config
    /\ manage_pc = [t \in ManageThreads |-> [pc |-> "idle"]]
    /\ manage_log = [r \in ManageRequests |-> "new"]

NamesOf(config) == [i \in DOMAIN config |-> config[i].name]

\* variant: a failed check is recorded like a failed request
FailuresAfterRecordedCheck(proxy_name, outcome) ==
    IF outcome = "online" THEN failure_counts
    ELSE Put(failure_counts, proxy_name, FailureListAfter(proxy_name))

\* new_proxy of add_proxy, for a body that has the five required fields
NewProxy(name, config) ==
    [name |-> name, api_base |-> "https://n", api_keys |-> <<"kn">>,
     model |-> "m1", models |-> <<"m1">>, is_active |-> TRUE,
     priority |-> Len(config) + 1]

\* third_party_apis as the route changes it in memory
ManagedConfig(request, config) ==
    CASE request.route = "add" ->
           Append(config, NewProxy(request.name, config))
      [] request.route = "update" ->
           [i \in DOMAIN config |->
               IF config[i].name = request.name
               THEN Put(config[i], "priority", UpdatedPriority)
               ELSE config[i]]
      [] request.route = "delete" ->
           SelectSeq(config, LAMBDA proxy : proxy.name # request.name)
      [] request.route = "toggle" ->
           [i \in DOMAIN config |->
               IF config[i].name = request.name
               THEN Put(config[i], "is_active",
                        ~GetOr(config[i], "is_active", TRUE))
               ELSE config[i]]

\* the route answers 400 (add: name exists) or 404 (others: name not found)
ManageRejected(request, config) ==
    IF request.route = "add"
    THEN InList(request.name, NamesOf(config))
    ELSE ~InList(request.name, NamesOf(config))

ManageReturn(thread, request, success) ==
    [op |-> "proxy_management", proxy |-> request.name, thread |-> thread,
     route |-> request.route, value |-> success]

\* a route up to the end of its work on the config it has read:
\* json.load(config.json), the name test, the change in memory
ManageRead(thread, request) ==
    /\ manage_pc[thread].pc = "idle"
    /\ manage_log[request] = "new"
    /\ IF ManageRejected(request, config_file)
       THEN /\ manage_log' = [manage_log EXCEPT ![request] = "failed"]
            /\ ret' = ManageReturn(thread, request, FALSE)
            /\ UNCHANGED manage_pc
       ELSE /\ manage_log' = [manage_log EXCEPT ![request] = "running"]
            /\ manage_pc' = [manage_pc EXCEPT ![thread] =
                  [pc |-> "changed", request |-> request,
                   config |-> ManagedConfig(request, config_file)]]
            /\ UNCHANGED ret
    /\ UNCHANGED <<now, trackerVars, poolVars, searchVars, tokenVars, switcherVars,
                   rateVars, healthVars, config_file>>

\* json.dump(config) to config.json, get_api_proxy_pool(reload=True), and the
\* answer; the pool is loaded from the file just written
ManageWrite(thread) ==
    /\ manage_pc[thread].pc = "changed"
    /\ load_pc = "idle"
    /\ config_file' = manage_pc[thread].config
    /\ proxies' = LoadResult(manage_pc[thread].config)
    /\ load_source' = manage_pc[thread].config
    /\ load_prev' = proxies
    /\ manage_log' = [manage_log EXCEPT ![manage_pc[thread].request] = "ok"]
    /\ manage_pc' = [manage_pc EXCEPT ![thread] = [pc |-> "idle"]]
    /\ ret' = ManageReturn(thread, manage_pc[thread].request, TRUE)
    /\ UNCHANGED <<now, trackerVars, searchVars, tokenVars, switcherVars, rateVars,
                   healthVars, load_pc, load_i>>

----------------------------------------------------------------------------
(* services/model_health_checker.py                                        *)

\* a proxy with three models
CfgM == [name |-> "M", api_base |-> "https://m", api_keys |-> <<"km">>,
         model |-> "m1", models |-> <<"m1", "m2", "m3">>, is_active |-> TRUE,
         priority |-> 1]

\* third_party_apis the checker may find in config.json
HealthConfigs ==
    { <<CfgM>>, <<CfgD, CfgB, CfgC>>, <<CfgM, CfgB>>, <<CfgD>>,
      InitialSource }

\* index of primary_api: the first entry with is_active, else the first
PrimaryIndex(config) ==
    IF \E i \in DOMAIN config : GetOr(config[i], "is_active", TRUE)
    THEN CHOOSE i \in DOMAIN config :
            /\ GetOr(config[i], "is_active", TRUE)
            /\ \A j \in 1..(i - 1) : ~GetOr(config[j], "is_active", TRUE)
    ELSE 1

\* primary_api after update_config_if_needed: the unhealthy models leave
\* 'models'; 'model' changes only if it is unhealthy and a model is healthy,
\* to healthy_models[0], the healthy model whose test ended first
UpdatedPrimary(api, unhealthy, healthy, first_healthy) ==
    [api EXCEPT
       !.models = SelectSeq(api.models, LAMBDA model : model \notin unhealthy),
       !.model = IF api.model \in unhealthy /\ healthy # {}
                 THEN first_healthy ELSE api.model]

\* ModelHealthChecker(config.json).run_health_check(update_config): keys_ok
\* says whether an API key is healthy (else no model is tested), unhealthy
\* holds the tested models that failed, write_ok whether config.json could
\* be written. With a healthy key and an empty models list the health rate
\* of check_models_health divides by zero and the run ends in that exception.
RunHealthCheck(update_config, keys_ok, unhealthy, first_healthy, write_ok) ==
    LET i == PrimaryIndex(config_file)
        api == config_file[i]
        tested == IF keys_ok THEN {api.models[k] : k \in DOMAIN api.models}
                  ELSE {}
        healthy == tested \ unhealthy
        updates == update_config /\ unhealthy # {}
        raised == keys_ok /\ api.models = <<>>
    IN  /\ config_file # <<>>
        /\ unhealthy \subseteq tested
        /\ healthy # {} => first_healthy \in healthy
        /\ config_file' =
             IF updates /\ write_ok
             THEN [config_file EXCEPT
                     ![i] = UpdatedPrimary(api, unhealthy, healthy,
                                           first_healthy)]
             ELSE config_file
        /\ ret' = [op |-> "run_health_check", proxy |-> api.name,
                   unhealthy |-> unhealthy, healthy |-> healthy,
                   raised |-> raised,
                   value |-> [config_updated |-> updates /\ write_ok]]
        /\ UNCHANGED <<now, trackerVars, poolVars, searchVars, tokenVars, switcherVars,
                       rateVars, healthVars, manage_pc, manage_log>>

ModelNames == {"m1", "m2", "m3"}

----------------------------------------------------------------------------
(* routes/proxy_management.py: the background health check                 *)

InitHealth ==
    /\ health_check_results = EmptyDict
    /\ health_check_timer = "none"
    /\ health_pending = {}

\* start_health_check_timer: the loop thread is started unless one is alive
StartHealthCheckTimer ==
    /\ health_check_timer' = "alive"
    /\ ret' = [op |-> "start_health_check_timer", proxy |-> "",
               value |-> health_check_timer = "none"]
    /\ UNCHANGED <<now, trackerVars, poolVars, searchVars, tokenVars, switcherVars,
                   rateVars, manageVars, health_check_results,
                   health_pending>>

\* the proxies run_health_checks starts a thread for
CheckedNames(config) ==
    {config[i].name : i \in {j \in DOMAIN config :
        /\ GetOr(config[j], "is_active", TRUE)
        /\ GetOr(config[j], "api_keys", <<>>) # <<>>}}

\* one turn of health_check_loop: run_health_checks reads config.json and
\* starts the check threads (the turns are 60 s apart; the threads of the
\* turn before have ended)
RunHealthChecks ==
    /\ health_check_timer = "alive"
    /\ health_pending = {}
    /\ health_pending' = CheckedNames(config_file)
    /\ ret' = [op |-> "run_health_checks", proxy |-> "",
               value |-> CheckedNames(config_file)]
    /\ UNCHANGED <<now, trackerVars, poolVars, searchVars, tokenVars, switcherVars,
                   rateVars, manageVars, health_check_results,
                   health_check_timer>>

\* what GET {api_base}/v1/models may do
HealthOutcomes == {"online", "error", "timeout", "offline"}

\* the entry check_proxy_health writes (response_time and last_check left out)
HealthEntry(outcome) ==
    [status |-> outcome,
     status_code |-> CASE outcome = "online" -> "200"
                       [] outcome = "error" -> "500"
                       [] OTHER -> "None"]

\* failover_manager.failure_counts after check_proxy_health: the function
\* makes no call of the failover manager
FailuresAfterHealthCheck(proxy_name, outcome) == failure_counts

\* check_proxy_health in its thread
CheckProxyHealth(proxy_name, outcome) ==
    /\ proxy_name \in health_pending
    /\ health_check_results' = Put(health_check_results, proxy_name,
                                   HealthEntry(outcome))
    /\ health_pending' = health_pending \ {proxy_name}
    /\ failure_counts' = FailuresAfterHealthCheck(proxy_name, outcome)
    /\ ret' = [op |-> "check_proxy_health", proxy |-> proxy_name,
               value |-> HealthEntry(outcome)]
    /\ UNCHANGED <<now, poolVars, searchVars, tokenVars, switcherVars, rateVars,
                   manageVars, health_check_timer, enabled, proxy_health,
                   success_counts, response_times, lock, all_pc, all_pending,
                   all_result>>

----------------------------------------------------------------------------

(* services.key_switcher.KeySwitcher: the tokens and the choice among them   *)

\* max(500, system_status["quota_per_unit"] * 0.001), quota_per_unit 500000
min_quota_threshold == 500
\* seconds a cached token detail stays valid
token_cache_ttl == 60
\* expired_time of every token get_tokens lists
ListedExpiredTime == 1750821712

\* 'sk-' and the rest of a key are kept apart: a key is the sequence of the two
KeyPrefix == "sk-"

StartsWithPrefix(key) == Len(key) > 0 /\ key[1] = KeyPrefix

\* key[3:] if key.startswith('sk-'), else key
KeyBase(key) == IF StartsWithPrefix(key) THEN Tail(key) ELSE key

\* f"sk-{key}" unless the key has the prefix already
WithPrefix(key) == IF StartsWithPrefix(key) THEN key ELSE <<KeyPrefix>> \o key

\* the fields of a token select_token and its helpers read
Token(id, key, status, expired_time, remain_quota, unlimited_quota) ==
    [id |-> id, key |-> key, status |-> status,
     expired_time |-> expired_time, remain_quota |-> remain_quota,
     unlimited_quota |-> unlimited_quota]

Token344 == Token(344, <<"TvSL">>, 1, ListedExpiredTime, 481961, FALSE)
Token343 == Token(343, <<"vebj">>, 1, ListedExpiredTime, 500000, FALSE)

\* get_tokens: the list written into the method, its first two entries
GetTokens == <<Token344, Token343>>

\* a token as an administrator may have edited it: disabled, nearly used up,
\* expired, or without a quota limit
EditedTokens ==
    { [Token344 EXCEPT !.status = 2],
      [Token344 EXCEPT !.remain_quota = LowQuota],
      [Token344 EXCEPT !.expired_time = StartEpoch],
      [Token343 EXCEPT !.unlimited_quota = TRUE, !.remain_quota = 0] }

TokenInputs == {Token344, Token343} \cup EditedTokens

\* the token lists handed to select_token: no id twice
TokenLists ==
    { tokens \in UNION { [1..n -> TokenInputs] : n \in 0..MaxTokens } :
        \A i, j \in DOMAIN tokens : tokens[i].id = tokens[j].id => i = j }

InitTokens ==
    /\ current_key = <<>>
    /\ api_key = <<>>
    /\ used_keys = {}
    /\ token_details_cache = EmptyDict

\* [t for t in tokens if keep(t)]
RECURSIVE FilterTokens(_, _)
FilterTokens(tokens, keep) ==
    IF tokens = <<>> THEN <<>>
    ELSE IF keep[Head(tokens)]
         THEN <<Head(tokens)>> \o FilterTokens(Tail(tokens), keep)
         ELSE FilterTokens(Tail(tokens), keep)

\* the cache entry get_token_detail answers from, if it is younger than the ttl
CachedDetail(cache, token_id) ==
    IF /\ Has(cache, token_id)
       /\ TimeTime - cache[token_id].timestamp < token_cache_ttl
    THEN Some(cache[token_id].data)
    ELSE None

\* the first token of get_tokens with this id
ListedDetail(token_id) ==
    LET found == FilterTokens(GetTokens,
                              [t \in TokenInputs |-> t.id = token_id])
    IN  IF found = <<>> THEN None ELSE Some(Head(found))

\* what get_token_detail returns
TokenDetail(cache, token_id) ==
    IF CachedDetail(cache, token_id) # None
    THEN CachedDetail(cache, token_id)
    ELSE ListedDetail(token_id)

\* token_details_cache after get_token_detail
CacheAfterDetail(cache, token_id) ==
    IF CachedDetail(cache, token_id) = None /\ ListedDetail(token_id) # None
    THEN Put(cache, token_id, [data |-> ListedDetail(token_id)[1],
                               timestamp |-> TimeTime])
    ELSE cache

\* get_token_detail
GetTokenDetail(token_id) ==
    /\ token_details_cache' = CacheAfterDetail(token_details_cache, token_id)
    /\ ret' = [op |-> "get_token_detail", token_id |-> token_id,
               value |-> TokenDetail(token_details_cache, token_id)]
    /\ UNCHANGED <<now, trackerVars, poolVars, searchVars, switcherVars,
                   rateVars, manageVars, healthVars, current_key, api_key,
                   used_keys>>

\* _update_token: only a token the cache already holds is replaced
UpdateToken(token_data) ==
    /\ token_details_cache' =
           IF Has(token_details_cache, token_data.id)
           THEN Put(token_details_cache, token_data.id,
                    [data |-> token_data, timestamp |-> TimeTime])
           ELSE token_details_cache
    /\ ret' = [op |-> "_update_token", token_id |-> token_data.id,
               value |-> Some(token_data)]
    /\ UNCHANGED <<now, trackerVars, poolVars, searchVars, switcherVars,
                   rateVars, manageVars, healthVars, current_key, api_key,
                   used_keys>>

\* update_api_key: the key goes into config.json and, if that is saved,
\* becomes the current key and a used one
UpdateApiKey(token, save_ok) ==
    LET key == WithPrefix(token.key)
    IN  /\ IF api_key = key
           THEN /\ UNCHANGED <<current_key, api_key, used_keys>>
                /\ ret' = [op |-> "update_api_key", token_id |-> token.id,
                           value |-> TRUE]
           ELSE IF save_ok
           THEN /\ api_key' = key
                /\ current_key' = key
                /\ used_keys' = used_keys \cup {KeyBase(key)}
                /\ ret' = [op |-> "update_api_key", token_id |-> token.id,
                           value |-> TRUE]
           ELSE /\ UNCHANGED <<current_key, api_key, used_keys>>
                /\ ret' = [op |-> "update_api_key", token_id |-> token.id,
                           value |-> FALSE]
        /\ UNCHANGED <<now, trackerVars, poolVars, searchVars, switcherVars,
                       rateVars, manageVars, healthVars, token_details_cache>>

\* the tokens that are enabled, not expired and not used up
QuotaTokens(tokens) ==
    LET active_tokens ==
            FilterTokens(tokens, [t \in TokenInputs |-> t.status = 1])
        valid_tokens ==
            FilterTokens(active_tokens,
                         [t \in TokenInputs |->
                             t.expired_time = 0 \/ t.expired_time > TimeTime])
    IN  FilterTokens(valid_tokens,
                     [t \in TokenInputs |->
                         \/ t.unlimited_quota
                         \/ t.remain_quota > min_quota_threshold])

\* quota_tokens without the token of the current key
WithoutCurrent(quota_tokens, exclude_current) ==
    IF exclude_current /\ current_key # <<>>
    THEN FilterTokens(quota_tokens,
                      [t \in TokenInputs |-> t.key # KeyBase(current_key)])
    ELSE quota_tokens

\* the first filtering: without the current key, the unused ones if there are
\* any
FirstFiltered(quota_tokens, exclude_current) ==
    LET filtered_tokens == WithoutCurrent(quota_tokens, exclude_current)
        unused_tokens ==
            FilterTokens(filtered_tokens,
                         [t \in TokenInputs |-> t.key \notin used_keys])
    IN  IF exclude_current /\ current_key # <<>> /\ unused_tokens # <<>>
        THEN unused_tokens
        ELSE filtered_tokens

\* used_keys as the reset may leave it: more than five are cut down to the
\* three that failed last, whichever those are
KeptKeys(reset) ==
    IF reset /\ Cardinality(used_keys) > 5
    THEN { kept \in SUBSET used_keys : Cardinality(kept) = 3 }
    ELSE { used_keys }

\* the second filtering after a reset, and the last resort
FilteredTokens(quota_tokens, exclude_current, kept) ==
    LET first == FirstFiltered(quota_tokens, exclude_current)
        again ==
            IF first # <<>> THEN first
            ELSE IF exclude_current /\ current_key # <<>>
                 THEN FilterTokens(WithoutCurrent(quota_tokens, TRUE),
                                   [t \in TokenInputs |-> t.key \notin kept])
                 ELSE quota_tokens
    IN  IF again # <<>> THEN again
        ELSE WithoutCurrent(quota_tokens, exclude_current)

\* refresh_token_info: the detail of the token's id, the token itself if
\* there is none
RefreshTokenInfo(cache, token) ==
    IF TokenDetail(cache, token.id) # None
    THEN TokenDetail(cache, token.id)[1]
    ELSE token

Prefix5(seq) == SubSeq(seq, 1, Min(5, Len(seq)))

\* the refreshed candidates with quota left; the filtered list if none has
RefreshedCandidates(cache, filtered_tokens) ==
    LET first5 == Prefix5(filtered_tokens)
        refreshed ==
            [i \in DOMAIN first5 |-> RefreshTokenInfo(cache, first5[i])]
        kept == FilterTokens(refreshed,
                             [t \in TokenInputs |->
                                 t.unlimited_quota \/ t.remain_quota > 0])
    IN  IF kept = <<>> THEN filtered_tokens ELSE kept

RECURSIVE CacheAfterRefresh(_, _)
CacheAfterRefresh(cache, tokens) ==
    IF tokens = <<>> THEN cache
    ELSE CacheAfterRefresh(CacheAfterDetail(cache, Head(tokens).id),
                           Tail(tokens))

\* select_token: the weights carry a random factor and the choice falls among
\* the three heaviest, so with at most three candidates any of them may be
\* the one returned
SelectToken(tokens, exclude_current) ==
    LET quota_tokens == QuotaTokens(tokens)
        reset == FirstFiltered(quota_tokens, exclude_current) = <<>>
                 /\ quota_tokens # <<>>
    IN  /\ \E kept \in KeptKeys(reset) :
           LET filtered_tokens ==
                   FilteredTokens(quota_tokens, exclude_current, kept)
               candidates ==
                   RefreshedCandidates(token_details_cache, filtered_tokens)
           IN  /\ used_keys' = kept
               /\ token_details_cache' =
                      CacheAfterRefresh(token_details_cache,
                                        Prefix5(filtered_tokens))
               /\ \E value \in IF filtered_tokens = <<>> THEN {None}
                               ELSE { Some(candidates[i]) :
                                         i \in DOMAIN candidates } :
                      ret' = [op |-> "select_token", tokens |-> tokens,
                              exclude_current |-> exclude_current,
                              current_key |-> current_key,
                              time |-> TimeTime, value |-> value]
        /\ UNCHANGED <<now, trackerVars, poolVars, searchVars, switcherVars,
                       rateVars, manageVars, healthVars, current_key, api_key>>

\* the clock beside the token cache
TokenTick ==
    /\ now + TokenTickStep <= TokenHorizon
    /\ now' = now + TokenTickStep
    /\ UNCHANGED <<trackerVars, poolVars, searchVars, serviceVars, ret>>

----------------------------------------------------------------------------

\* the process after start with `config` as third_party_apis of config.json;
\* everything but the cache switches, which init_redis_cache decides
InitFrom(config) ==
    /\ now = 0
    /\ enabled = TRUE
    /\ proxy_health = EmptyDict
    /\ failure_counts = EmptyDict
    /\ success_counts = EmptyDict
    /\ response_times = EmptyDict
    /\ lock = "free"
    /\ all_pc = "idle"
    /\ all_pending = {}
    /\ all_result = EmptyDict
    /\ proxies = LoadResult(config)
    /\ load_pc = "idle"
    /\ load_source = config
    /\ load_i = 1
    /\ load_prev = <<>>
    /\ openai_api_base = DefaultApiBase
    /\ redis_store = EmptyDict
    /\ db = EmptyDict
    /\ upstream_log = <<>>
    /\ redis_failing = {}
    /\ simple_cache = EmptyDict
    /\ InitSwitcher
    /\ InitRateLimit
    /\ InitManage(config)
    /\ InitHealth
    /\ InitTokens
    /\ ret = [op |-> "init", proxy |-> "", value |-> TRUE]

\* the deployment the process starts with
InitCommon == InitFrom(InitialSource)

\* the process after start with Redis switched on and answering the ping
Init ==
    /\ InitCommon
    /\ enable_cache = TRUE
    /\ cache_ready = TRUE

\* init_redis_cache: the cache object exists only if Redis is switched on and
\* answers the ping; only a failed connection clears Config.ENABLE_CACHE
InitRedisCache(redis_enabled, ping_ok) ==
    /\ cache_ready = (redis_enabled /\ ping_ok)
    /\ enable_cache = ~(redis_enabled /\ ~ping_ok)

\* the process after start, whatever Redis did
InitAnyRedis ==
    /\ InitCommon
    /\ \E redis_enabled \in BOOLEAN, ping_ok \in BOOLEAN :
          InitRedisCache(redis_enabled, ping_ok)

RECURSIVE SumLens(_, _)
SumLens(d, S) ==
    IF S = {} THEN 0
    ELSE LET k == CHOOSE x \in S : TRUE
         IN  Len(d[k]) + SumLens(d, S \ {k})

\* number of outcomes the tracker currently stores
StoredRecords ==
    SumLens(failure_counts, DOMAIN failure_counts)
      + SumLens(success_counts, DOMAIN success_counts)

\* the tracker under record_failure / record_success / is_proxy_healthy,
\* manual resets and the enable switch
Next ==
    \/ Tick(MaxTime)
    \/ \E p \in TrackerNames :
          StoredRecords < MaxRecords /\ RecordFailure(p)
    \/ \E p \in TrackerNames :
          StoredRecords < MaxRecords /\ RecordSuccess(p, NoResponseTime)
    \/ \E p \in TrackerNames : IsProxyHealthy(p)
    \/ \E p \in TrackerNames : ResetProxyHealth(p)
    \/ ResetAllHealth
    \/ EnableFailover
    \/ DisableFailover
    \/ ToggleFailover

Spec == Init /\ [][Next]_vars

\* one proxy under a burst of requests, enough of them for the circuit breaker
NextBreaker ==
    \/ Tick(MaxTime)
    \/ \E p \in BurstNames :
          StoredRecords < MaxBurstRecords /\ RecordFailure(p)
    \/ \E p \in BurstNames :
          StoredRecords < MaxBurstRecords /\ RecordSuccess(p, NoResponseTime)
    \/ \E p \in BurstNames : IsProxyHealthy(p)
    \/ \E p \in BurstNames : ResetProxyHealth(p)
    \/ DisableFailover
    \/ EnableFailover

SpecBreaker == Init /\ [][NextBreaker]_vars

\* the diagnostics boundary beside the recording calls
NextStatus ==
    \/ Tick(StatusHorizon)
    \/ \E p \in TrackerNames :
          StoredRecords < MaxStatusRecords /\ RecordFailure(p)
    \/ \E p \in TrackerNames, rt \in ResponseTimeInputs :
          StoredRecords < MaxStatusRecords /\ RecordSuccess(p, rt)
    \/ \E p \in TrackerNames : IsProxyHealthy(p)
    \/ \E p \in TrackerNames : GetProxyHealthStatus(p)
    \/ GetAllHealthStatusEnter
    \/ GetAllHealthStatusStep
    \/ DisableFailover
    \/ EnableFailover

SpecStatus == Init /\ [][NextStatus]_vars

\* the pool read by request threads while one thread reloads it
NextPool ==
    \/ \E src \in Sources : LoadProxiesBegin(src)
    \/ LoadProxiesAppend
    \/ LoadProxiesSort
    \/ GetActiveProxies
    \/ GetPrimaryProxy
    \/ \E ex \in ExcludeInputs : GetNextProxy(ex)
    \/ \E m \in ModelInputs : GetProxyForModel(m)

SpecPool == Init /\ [][NextPool]_vars

\* search requests beside the tracker and the pool of the initial list
NextDispatch ==
    \/ Tick(DispatchHorizon)
    \/ \E p \in DispatchNames :
          StoredRecords < MaxDispatchRecords /\ RecordFailure(p)
    \/ \E p \in DispatchNames :
          StoredRecords < MaxDispatchRecords /\ RecordSuccess(p, NoResponseTime)
    \/ GetHealthyProxies([i \in DOMAIN ActiveOf(proxies) |->
                            ActiveOf(proxies)[i].name])
    \/ \E ex \in ExcludeInputs : GetNextProxy(ex)
    \/ \E base \in ApiBaseInputs : UpdateConfig(TRUE, base)
    \/ \E up \in DispatchResponses :
          /\ Len(upstream_log) < MaxUpstreamCalls
          /\ Search(<<"q">>, TYPE_COMPLETION, <<>>, TRUE, up)

SpecDispatch == Init /\ [][NextDispatch]_vars

\* search requests against the answer cache
NextSearch ==
    \/ Tick(SearchHorizon)
    \/ \E b \in BOOLEAN : UpdateConfig(b, DefaultApiBase)
    \/ \E q \in QuestionInputs, t \in TypeInputs, o \in OptionsInputs,
          ok \in BOOLEAN, up \in UpstreamResponses :
          /\ Len(upstream_log) < MaxUpstreamCalls
          /\ Search(q, t, o, ok, up)

SpecSearch == Init /\ [][NextSearch]_vars

\* search requests while Redis may be switched off, unreachable at start, or
\* failing later
NextCacheFailure ==
    \/ Tick(SearchHorizon)
    \/ \E commands \in FaultInputs : RedisFault(commands)
    \/ \E b \in BOOLEAN : UpdateConfig(b, DefaultApiBase)
    \/ \E t \in TypeInputs, ok \in BOOLEAN, up \in UpstreamResponses :
          /\ Len(upstream_log) < MaxUpstreamCalls
          /\ Search(<<"q">>, t, <<>>, ok, up)

SpecCacheFailure == InitAnyRedis /\ [][NextCacheFailure]_vars

\* records made by searches and edited through /api/record/update; an edit
\* that would give two records the same (question, type, options) is left
\* out, db holding one record per triple
NextRecords ==
    \/ Tick(DispatchHorizon)
    \/ \E b \in BOOLEAN : UpdateConfig(b, DefaultApiBase)
    \/ \E q \in {<<"q">>, <<"r">>}, up \in DispatchResponses :
          /\ Len(upstream_log) < MaxUpstreamCalls
          /\ Search(q, TYPE_COMPLETION, <<>>, TRUE, up)
    \/ \E record \in RecordInputs, data \in UpdateInputs, ok \in BOOLEAN :
          /\ LET updated == <<GetOr(data, "question", record[1]),
                              record[2], record[3]>>
             IN  updated = record \/ ~Has(db, updated)
          /\ UpdateRecord(record, data, ok)

SpecRecords == Init /\ [][NextRecords]_vars

\* request threads that call switch_key while the clock runs
NextSwitch ==
    \/ SwitchTick
    \/ \E thread \in SwitchThreads : SwitchKeyCheck(thread)
    \/ \E thread \in SwitchThreads : SwitchKeyAcquire(thread)
    \/ \E thread \in SwitchThreads, outcome \in SwitchOutcomes :
          SwitchKeyRun(thread, outcome)

SpecSwitch == Init /\ [][NextSwitch]_vars

\* worker threads that take requests of one address for one limited route
NextRate ==
    \/ RateTick
    \/ \E thread \in RateThreads : RateLimitRead(thread)
    \/ \E thread \in RateThreads : RateLimitWrite(thread)

SpecRate == Init /\ [][NextRate]_vars

\* administrators' requests to the proxy routes, taken by two threads
NextManage ==
    \/ \E thread \in ManageThreads, request \in ManageRequests :
          ManageRead(thread, request)
    \/ \E thread \in ManageThreads : ManageWrite(thread)

SpecManage == Init /\ [][NextManage]_vars

\* the health check loop beside failing requests and an administrator who
\* switches proxy B off and deletes proxy A
NextHealth ==
    \/ StartHealthCheckTimer
    \/ RunHealthChecks
    \/ \E proxy_name \in health_pending, outcome \in HealthOutcomes :
          CheckProxyHealth(proxy_name, outcome)
    \/ \E p \in TrackerNames :
          StoredRecords < MaxStatusRecords /\ RecordFailure(p)
    \/ \E request \in {r \in ManageRequests :
                          r.route \in {"toggle", "delete"}} :
          ManageRead("t1", request)
    \/ ManageWrite("t1")

SpecHealth == Init /\ [][NextHealth]_vars

\* the checker run again and again on the config.json it finds
InitModelHealth ==
    /\ \E config \in HealthConfigs : InitFrom(config)
    /\ enable_cache = TRUE
    /\ cache_ready = TRUE

NextModelHealth ==
    \E update_config \in BOOLEAN, keys_ok \in BOOLEAN,
       unhealthy \in SUBSET ModelNames, first_healthy \in ModelNames,
       write_ok \in BOOLEAN :
       RunHealthCheck(update_config, keys_ok, unhealthy, first_healthy,
                      write_ok)

SpecModelHealth == InitModelHealth /\ [][NextModelHealth]_vars

\* the key switcher's tokens: details fetched and edited, keys taken into
\* use, tokens selected, and the clock
NextSelect ==
    \/ TokenTick
    \/ \E token \in TokenInputs : GetTokenDetail(token.id)
    \/ \E token_data \in TokenInputs : UpdateToken(token_data)
    \/ \E token \in TokenInputs, save_ok \in BOOLEAN :
          UpdateApiKey(token, save_ok)
    \/ \E tokens \in TokenLists, exclude_current \in BOOLEAN :
          SelectToken(tokens, exclude_current)

SpecSelect == Init /\ [][NextSelect]_vars

\* a new key still fits into the store
RoomFor(store, key) ==
    Has(store, key) \/ Cardinality(DOMAIN store) < MaxCacheEntries

\* RedisCache under set / get / delete / clear and the clock
NextRedisCache ==
    \/ Tick(CacheHorizon)
    \/ \E q \in RedisQuestions, t \in RedisTypes, o \in CacheOptions,
          a \in CacheAnswers :
          /\ RoomFor(LiveKeys, CacheKey(q, t, o))
          /\ RedisCacheSet(q, a, t, o)
    \/ \E q \in RedisQuestions, t \in RedisTypes, o \in CacheOptions :
          RedisCacheGet(q, t, o)
    \/ \E q \in RedisQuestions, t \in RedisTypes, o \in CacheOptions :
          RedisCacheDelete(q, t, o)
    \/ RedisCacheClear

SpecRedisCache == Init /\ [][NextRedisCache]_vars

\* SimpleCache under set / get / clear / remove_expired and the clock
NextSimpleCache ==
    \/ Tick(CacheHorizon)
    \/ \E q \in SimpleQuestions, t \in SimpleTypes, o \in CacheOptions,
          a \in CacheAnswers :
          /\ RoomFor(simple_cache, SimpleKey(q, t, o))
          /\ SimpleCacheSet(q, a, t, o)
    \/ \E q \in SimpleQuestions, t \in SimpleTypes, o \in CacheOptions :
          SimpleCacheGet(q, t, o)
    \/ SimpleCacheClear
    \/ SimpleCacheRemoveExpired

SpecSimpleCache == Init /\ [][NextSimpleCache]_vars

\* extract_answer applied to every response of the bounded set
NextExtract ==
    \/ \E ai_response \in Responses, question_type \in ResponseTypes :
          ExtractAnswerCall(ai_response, question_type)
    \/ \E ai_response \in JudgementResponses,
          question_type \in JudgementTypes :
          ExtractAnswerCall(ai_response, question_type)

SpecExtract == Init /\ [][NextExtract]_vars
----------------------------------------------------------------------------
(* Claims about the failover tracker                                       *)

ConsecutiveFailures(p) ==
    GetOr(GetOr(proxy_health, p, EmptyDict), "consecutive_failures", 0)

StatusOf(p) ==
    GetOr(GetOr(proxy_health, p, EmptyDict), "status", "unknown")

\* the last max_failures calls recorded for p were failures, and the last of
\* them found max_failures failures inside the failure window
FailedMaxInWindow(p) ==
    /\ ConsecutiveFailures(p) >= max_failures
    /\ StatusOf(p) = "unhealthy"

\* C1: with failover enabled, right after max_failures consecutive
\* record_failure(p) calls inside the failure window is_proxy_healthy(p) is
\* false, and after one single subsequent record_success(p) it is true again.
C1_UnhealthyThenHealthyAfterSuccess ==
    [][\A p \in TrackerNames :
         /\ ( /\ enabled'
              /\ ret'.op = "record_failure" /\ ret'.proxy = p
              /\ FailedMaxInWindow(p)'
              /\ proxy_health'[p].last_failure = now' )
            => ~IsProxyHealthyValue(p)'
         /\ ( /\ enabled /\ enabled'
              /\ FailedMaxInWindow(p)
              /\ ret'.op = "record_success" /\ ret'.proxy = p )
            => IsProxyHealthyValue(p)'
      ]_vars

\* C2: with failover enabled, a proxy with at least
\* min_requests_for_circuit_breaker outcomes inside the failure window, half
\* or more of them failures, is not healthy, whatever its consecutive_failures.
C2_BreakerExcludes ==
    \A p \in BurstNames :
      ( /\ enabled
        /\ RecentFailures(p) + RecentSuccesses(p)
             >= min_requests_for_circuit_breaker
        /\ 2 * RecentFailures(p) >= RecentFailures(p) + RecentSuccesses(p) )
      => ~IsProxyHealthyValue(p)

\* is_proxy_healthy has just answered false for a proxy whose last outcome was
\* a success, with the breaker's conditions met
C2_Witness ==
    /\ enabled
    /\ ret.op = "is_proxy_healthy" /\ ret.proxy = "A" /\ ret.value = FALSE
    /\ Has(proxy_health, "A")
    /\ proxy_health["A"].consecutive_failures = 0
    /\ proxy_health["A"].status = "healthy"
    /\ RecentFailures("A") + RecentSuccesses("A")
         >= min_requests_for_circuit_breaker
    /\ 2 * RecentFailures("A") >= RecentFailures("A") + RecentSuccesses("A")

\* time of the last failure recorded for p
LastRecordedFailure(p) ==
    failure_counts[p][Len(failure_counts[p])].time

C4_GetAllHealthStatusCompletes ==
    /\ all_pc = "locked" => ENABLED GetAllHealthStatusStep
    /\ all_pc = "calling"
         => ENABLED (\E p \in all_pending : GetProxyHealthStatus(p))
    /\ ret.op = "get_all_health_status"
         => DOMAIN ret.value.proxies = DOMAIN proxy_health

\* C5: consecutive_failures of p grows only in record_failure(p), by one, and
\* is 0 right after record_success(p).
C5_ConsecutiveFailures ==
    [][\A p \in TrackerNames :
         /\ ConsecutiveFailures(p)' > ConsecutiveFailures(p)
            => /\ ret'.op = "record_failure" /\ ret'.proxy = p
               /\ ConsecutiveFailures(p)' = ConsecutiveFailures(p) + 1
         /\ (ret'.op = "record_success" /\ ret'.proxy = p)
            => ConsecutiveFailures(p)' = 0
      ]_vars

\* a success has just reset a proxy that had failed twice in a row
C5_Witness ==
    /\ ret.op = "record_success" /\ ret.proxy = "A"
    /\ ConsecutiveFailures("A") = 0
    /\ Has(failure_counts, "A") /\ Len(failure_counts["A"]) >= 2
    /\ ConsecutiveFailures("B") >= 1
----------------------------------------------------------------------------
(* Claims about the proxy pool                                             *)

\* a descriptor the registry has to accept
ValidDescriptor(proxy_config) ==
    /\ IsDict(proxy_config)
    /\ "name" \in DOMAIN proxy_config
    /\ "api_base" \in DOMAIN proxy_config
    /\ GetOr(proxy_config, "api_keys", <<>>) # <<>>
    /\ GetOr(proxy_config, "models", <<>>) # <<>>

RejectedSource(proxy_configs) ==
    \E i \in DOMAIN proxy_configs : ~ValidDescriptor(proxy_configs[i])

\* C7: a load whose source holds an invalid descriptor, or that raises, fails
\* as a whole: when it has ended, the previously loaded list is in force.
C7_RejectedLoadKeepsPreviousList ==
    (load_pc = "idle" /\ RejectedSource(load_source))
    => proxies = load_prev

\* what the four readers return on a given list
ReadOf(call, list) ==
    CASE call.op = "get_active_proxies" -> ActiveOf(list)
      [] call.op = "get_primary_proxy" -> PrimaryOf(list)
      [] call.op = "get_next_proxy" -> NextOf(list, call.arg)
      [] call.op = "get_proxy_for_model" -> ForModelOf(list, call.arg)

PoolReaders == {"get_active_proxies", "get_primary_proxy", "get_next_proxy",
                "get_proxy_for_model"}

\* C8: a reader that runs while another thread reloads sees the complete
\* previous list or the complete new sorted list, nothing in between.
C8_ReadersSeeWholeLists ==
    (load_pc # "idle" /\ ret.op \in PoolReaders)
    => \/ ret.value = ReadOf(ret, load_prev)
       \/ ret.value = ReadOf(ret, LoadResult(load_source))

\* C9: no reader ever returns a proxy that is switched off.
C9_InactiveNeverReturned ==
    /\ ret.op = "get_active_proxies"
         => \A i \in DOMAIN ret.value : ret.value[i].is_active
    /\ ret.op \in PoolReaders \ {"get_active_proxies"}
         => (ret.value = None \/ ret.value[1].is_active)

\* after a reload, with a switched-off proxy first in the list, the primary
\* proxy was asked for and an active one was returned
C9_Witness ==
    /\ load_pc = "idle"
    /\ load_prev # <<>>
    /\ proxies # <<>> /\ ~proxies[1].is_active
    /\ ret.op = "get_primary_proxy"
    /\ ret.value # None /\ ret.value[1].is_active
----------------------------------------------------------------------------
(* Claims about search                                                     *)

\* api_base of the loaded proxy called name
BaseOf(name) ==
    (CHOOSE proxy \in {proxies[i] : i \in DOMAIN proxies} :
        proxy.name = name).api_base

\* the active proxies are A, B, C in this order of priority; the tracker has
\* A as not healthy and B and C as healthy
FailoverScenario ==
    /\ load_pc = "idle"
    /\ [i \in DOMAIN ActiveOf(proxies) |-> ActiveOf(proxies)[i].name]
         = <<"A", "B", "C">>
    /\ enabled
    /\ ~IsProxyHealthyValue("A")
    /\ IsProxyHealthyValue("B")
    /\ IsProxyHealthyValue("C")

\* C6: with active proxies A (priority 1, unhealthy), B (priority 2, healthy)
\* and C (priority 3, healthy), a search that goes upstream attempts B first,
\* C only after B, and never A.
C6_FailoverOrder ==
    (ret.op = "search" /\ ret.attempts # <<>> /\ FailoverScenario)
    => /\ \A i \in DOMAIN ret.attempts : ret.attempts[i] # BaseOf("A")
       /\ ret.attempts[1] = BaseOf("B")
       /\ \A i \in DOMAIN ret.attempts :
            ret.attempts[i] = BaseOf("C")
            => \E j \in 1..(i - 1) : ret.attempts[j] = BaseOf("B")

\* C10: with the cache enabled, a search that follows an answered search for
\* the same (question, type, options), while the cached entry has not expired,
\* is answered without a further upstream call.
C10_SecondSearchFromCache ==
    [][ ( /\ enable_cache /\ enable_cache'
          /\ ret.op = "search" /\ ret.value.code = 1
          /\ ret'.op = "search"
          /\ ret'.question = ret.question
          /\ ret'.type = ret.type
          /\ ret'.options = ret.options
          /\ RedisGet(CacheKey(ret.question, ret.type, ret.options)) # None )
        => upstream_log' = upstream_log
      ]_vars
----------------------------------------------------------------------------
(* Claims about the caches                                                 *)

\* the answer the last set left under the key of the call in ret, while that
\* entry is alive (not expired, not deleted, not cleared)
StoredFor(call) ==
    IF call.proxy = "redis"
    THEN RedisGet(CacheKey(call.question, call.type, call.options))
    ELSE SimpleGetValue(call.question, call.type, call.options)

\* C11: a get made after a set, before the entry expires and before any
\* delete or clear, returns exactly the answer that was set, for every answer
\* string and both cache classes.
C11_GetReturnsWhatWasSet ==
    ( /\ ret.op = "cache_get"
      /\ ret.value # "raised"
      /\ StoredFor(ret) # None )
    => ret.value = StoredFor(ret)

KeyedCalls == {"cache_get", "cache_set", "cache_delete"}

\* the string that call's cache hashes into its key
KeyStringOf(call) ==
    IF call.proxy = "redis"
    THEN CacheKey(call.question, call.type, call.options)
    ELSE SimpleKey(call.question, call.type, call.options)

\* C13: two calls on one cache whose (question, type, options) differ in any
\* field never derive the same key string, so a get hits only what was set
\* under exactly its own triple.
C13_DistinctTriplesDistinctKeys ==
    [][ ( /\ ret.op \in KeyedCalls /\ ret'.op \in KeyedCalls
          /\ ret.proxy = ret'.proxy
          /\ <<ret.question, ret.type, ret.options>>
               # <<ret'.question, ret'.type, ret'.options>> )
        => KeyStringOf(ret) # KeyStringOf(ret')
      ]_vars
----------------------------------------------------------------------------
(* Claims about search and its failures                                    *)

\* the reply of the `except Exception` around the body of search()
EndedWithError(call) ==
    /\ call.value.code = 0
    /\ call.value.msg[1] = "error occurred"

\* C14: a cache that fails during a search (cache object missing, Redis
\* raising on get or set) counts as a miss: the request goes upstream and is
\* never ended with an error by the cache.
C14_CacheFailureIsAMiss ==
    ret.op = "search" => ~EndedWithError(ret)

\* the body / exception texts a failing upstream may carry
ErrorTexts == {up.text : up \in {u \in UpstreamResponses : UpstreamFailed(u)}}

\* C15: when the upstream call fails, the reply does not depend on the
\* upstream body or exception text: the same failure with any other text
\* gets the same reply.
C15_FailureReplyIsGeneric ==
    ( /\ ret.op = "search"
      /\ ret.attempts # <<>>
      /\ ret.value.code = 0
      /\ ~EndedWithError(ret) )
    => \A up \in {u \in UpstreamResponses : UpstreamFailed(u)} :
          UpstreamFailureReply(up) = ret.value
          => \A text \in ErrorTexts :
                UpstreamFailureReply([up EXCEPT !.text = text]) = ret.value
----------------------------------------------------------------------------
(* Further claims about the failover tracker                               *)

\* C16: a record_failure(p) while p is 'recovering' puts p back to
\* 'unhealthy' with consecutive_failures 1, and is_proxy_healthy(p) is false
\* right after it.
C16_FailureWhileRecovering ==
    [][\A p \in TrackerNames :
         ( /\ enabled
           /\ StatusOf(p) = "recovering"
           /\ ret'.op = "record_failure" /\ ret'.proxy = p )
         => /\ StatusOf(p)' = "unhealthy"
            /\ ConsecutiveFailures(p)' = 1
            /\ ~IsProxyHealthyValue(p)'
      ]_vars

\* a name no call ever recorded anything for
NeverRecorded == "Z"

\* nothing is stored for p, and its snapshot and breaker are those of a proxy
\* that was never recorded
LikeNeverRecorded(p) ==
    /\ ~Has(proxy_health, p)
    /\ ~Has(failure_counts, p)
    /\ ~Has(success_counts, p)
    /\ ~Has(response_times, p)
    /\ HealthStatus(p) = HealthStatus(NeverRecorded)
    /\ IsCircuitBreakerOpen(p) = IsCircuitBreakerOpen(NeverRecorded)

\* C17: reset_proxy_health(name) clears every stored record of that proxy
\* (status, failures, successes, response-time samples) and reset_all_health()
\* those of every proxy; the snapshot and the breaker are then those of a
\* proxy that was never recorded.
C17_ResetClearsEveryRecord ==
    [][\A p \in TrackerNames :
         /\ (ret'.op = "reset_proxy_health" /\ ret'.proxy = p)
              => LikeNeverRecorded(p)'
         /\ ret'.op = "reset_all_health" => LikeNeverRecorded(p)'
      ]_vars
----------------------------------------------------------------------------
(* Further claims about the proxy pool                                     *)

\* place of a loaded proxy in the configuration source it was built from
DeclaredAt(proxy) ==
    CHOOSE i \in DOMAIN load_source :
        /\ IsDict(load_source[i]) /\ ApiProxy(load_source[i]) = proxy
        /\ \A j \in 1..(i - 1) :
              ~(IsDict(load_source[j]) /\ ApiProxy(load_source[j]) = proxy)

\* C18: after the initial load and after every reload, get_active_proxies()
\* returns the active proxies of the pool, in ascending priority, proxies of
\* equal priority in the order in which the source declares them.
C18_ActiveSortedStable ==
    (load_pc = "idle" /\ ret.op = "get_active_proxies")
    => /\ \A i \in DOMAIN ret.value : ret.value[i].is_active
       /\ \A i \in DOMAIN proxies :
            proxies[i].is_active
            => \E j \in DOMAIN ret.value : ret.value[j] = proxies[i]
       /\ Len(ret.value)
            = Cardinality({i \in DOMAIN proxies : proxies[i].is_active})
       /\ \A i, j \in DOMAIN ret.value :
            i < j
            => /\ ret.value[i].priority <= ret.value[j].priority
               /\ ret.value[i].priority = ret.value[j].priority
                    => DeclaredAt(ret.value[i]) <= DeclaredAt(ret.value[j])

\* after a reload from a source that is not in priority order and declares
\* two active proxies of one priority, get_active_proxies returned them
C18_Witness ==
    /\ load_pc = "idle" /\ ret.op = "get_active_proxies"
    /\ load_prev # <<>>
    /\ Len(load_source) >= 3
    /\ load_source[1].priority > GetOr(load_source[2], "priority", 1)
    /\ Len(ret.value) >= 3
    /\ ret.value[1].priority = ret.value[2].priority
    /\ ret.value[1].name # ret.value[2].name

\* the loaded proxies that are active / active and list model in models
ActiveSet == {proxies[i] : i \in {j \in DOMAIN proxies : proxies[j].is_active}}
SupportingSet(model) ==
    {proxy \in ActiveSet :
        \E k \in DOMAIN proxy.models : proxy.models[k] = model}

----------------------------------------------------------------------------
(* Claims about extract_answer                                             *)

\* the separators the specification names for a multiple-choice answer
NamedSeparators == {",", "U+3001", "U+FF1B", " "}

\* the option letters of a response, in their order, each a string
LettersOf(response) ==
    LET letters == SelectSeq(response, LAMBDA c : c \in OptionLetters)
    IN  [i \in DOMAIN letters |-> <<letters[i]>>]

\* C20: for type 'multiple', a response made only of option letters and the
\* separators ',', U+3001, U+FF1B and space is turned into its letters, in
\* their order, joined by '#'.
C20_MultipleLettersJoined ==
    (/\ ret.op = "extract_answer"
     /\ ret.arg.question_type = TYPE_MULTIPLE
     /\ \A i \in DOMAIN ret.arg.ai_response :
           ret.arg.ai_response[i] \in OptionLetters \cup NamedSeparators
     /\ \E i \in DOMAIN ret.arg.ai_response :
           ret.arg.ai_response[i] \in OptionLetters)
    => ret.value = Join(LettersOf(ret.arg.ai_response), <<"#">>)

\* C21: for type 'judgement', a response whose trimmed, lower-cased text is
\* one of the affirmative words gives U+6B63 U+786E ("correct"), one of the
\* negative words gives U+9519 U+8BEF ("wrong"), and every other response
\* is returned trimmed and otherwise unchanged.
C21_JudgementWords ==
    (/\ ret.op = "extract_answer"
     /\ ret.arg.question_type = TYPE_JUDGEMENT
     /\ Strip(ret.arg.ai_response) # <<>>)
    => LET trimmed == Strip(ret.arg.ai_response)
       IN  /\ Lower(trimmed) \in TrueWords
                => ret.value = <<"U+6B63", "U+786E">>
           /\ Lower(trimmed) \in FalseWords
                => ret.value = <<"U+9519", "U+8BEF">>
           /\ Lower(trimmed) \notin TrueWords \cup FalseWords
                => ret.value = trimmed

\* C22: whatever the raw response and the type, the result of extract_answer
\* neither begins nor ends with whitespace.
C22_ResultIsTrimmed ==
    ret.op = "extract_answer"
    => (ret.value = <<>>
        \/ (/\ ret.value[1] \notin Whitespace
            /\ ret.value[Len(ret.value)] \notin Whitespace))
----------------------------------------------------------------------------
(* Claims about what search and the record routes leave in the cache       *)

\* C24: a search whose upstream call yields no usable content (the answer
\* extracted from the body is empty or blank) writes no cache entry for its
\* (question, type, options).
C24_NoEntryForEmptyAnswer ==
    [][ ( /\ upstream_log' # upstream_log
          /\ ret'.op = "search"
          /\ ret'.value.code = 1
          /\ Strip(ret'.value.answer) = <<>> )
        => ~Has(redis_store',
                CacheKey(ret'.question, ret'.type, ret'.options))
      ]_vars

\* C23: after a successful /api/record/update that changed the record's
\* (question, type, options), the cache holds no entry under the previous
\* triple and holds the record's answer under the new one.
C23_UpdateMovesCacheEntry ==
    [][ ( /\ ret' # ret
          /\ ret'.op = "update_record"
          /\ ret'.value.success
          /\ enable_cache
          /\ ret'.updated # ret'.record )
        => /\ ~Has(redis_store', CacheKey(ret'.record[1], ret'.record[2],
                                          ret'.record[3]))
           /\ Has(redis_store', CacheKey(ret'.updated[1], ret'.updated[2],
                                         ret'.updated[3]))
           /\ redis_store'[CacheKey(ret'.updated[1], ret'.updated[2],
                                    ret'.updated[3])].value = ret'.answer
      ]_vars
----------------------------------------------------------------------------
(* Claims about the key switcher                                           *)

\* C25: a switch_key call that switches the key after an earlier successful
\* switch does so no sooner than the cooldown, min(base_cooldown *
\* cooldown_factor, max_cooldown) seconds, after that switch, whichever
\* threads make the calls.
C25_NoSwitchInsideCooldown ==
    [][ ( /\ ret' # ret
          /\ ret'.op = "switch_key"
          /\ ret'.value
          /\ last_switch_time # 0 )
        => (TimeTime - last_switch_time) * 10 >= ActualCooldownTenths
      ]_vars
----------------------------------------------------------------------------
(* Claims about rate_limit                                                 *)

\* C26: in no window does the wrapped handler run for more than `limit`
\* requests of one address, whichever worker threads take the requests.
C26_AtMostLimitHandled ==
    \A key \in DOMAIN handled : handled[key] <= RateLimit
----------------------------------------------------------------------------
(* Claims about the proxy routes                                           *)

\* the entries of config.json called name
EntriesNamed(name) ==
    SelectSeq(config_file, LAMBDA proxy : proxy.name = name)

\* C27: once every request to the proxy routes has returned, config.json
\* holds the effect of each request that reported success (the added proxy
\* is there, the updated one has its new priority, the deleted one is gone,
\* the toggled one is switched), and no name occurs twice.
C27_NoProxyChangeLost ==
    (\A thread \in ManageThreads : manage_pc[thread].pc = "idle")
    => /\ \A request \in ManageRequests :
            manage_log[request] = "ok"
            => CASE request.route = "add" ->
                      Len(EntriesNamed(request.name)) = 1
                 [] request.route = "update" ->
                      /\ EntriesNamed(request.name) # <<>>
                      /\ EntriesNamed(request.name)[1].priority
                           = UpdatedPriority
                 [] request.route = "delete" ->
                      EntriesNamed(request.name) = <<>>
                 [] request.route = "toggle" ->
                      /\ EntriesNamed(request.name) # <<>>
                      /\ ~EntriesNamed(request.name)[1].is_active
       /\ \A i, j \in DOMAIN config_file :
            config_file[i].name = config_file[j].name => i = j
----------------------------------------------------------------------------
(* Claims about the health check loop                                      *)

\* C28: a step of the health check loop (the start of the timer, a turn of
\* run_health_checks, a check_proxy_health thread) changes nothing of the
\* failover tracker, of the proxy pool or of config.json.
C28_HealthCheckFrame ==
    [][ ( \/ healthVars' # healthVars
          \/ /\ ret' # ret
             /\ ret'.op \in {"start_health_check_timer", "run_health_checks",
                             "check_proxy_health"} )
        => UNCHANGED <<trackerVars, poolVars, config_file>>
      ]_vars

\* a check of proxy A that found it unreachable has been written to
\* health_check_results, after the tracker recorded a failed request of A
C28_Witness ==
    /\ ret.op = "check_proxy_health" /\ ret.proxy = "A"
    /\ health_check_results["A"].status = "offline"
    /\ Has(failure_counts, "A") /\ Len(failure_counts["A"]) = 1
----------------------------------------------------------------------------
(* Claims about the model health checker                                   *)

\* C29: the proxy record that a run of run_health_check writes back to
\* config.json, when the record was valid before, has a models list that is
\* not empty and a default model that is in that list.
C29_WrittenProxyStaysValid ==
    [][ ( /\ ret' # ret
          /\ ret'.op = "run_health_check"
          /\ ret'.value.config_updated
          /\ config_file[PrimaryIndex(config_file)].models # <<>>
          /\ InList(config_file[PrimaryIndex(config_file)].model,
                    config_file[PrimaryIndex(config_file)].models) )
        => LET written == config_file'[PrimaryIndex(config_file)]
           IN  /\ written.models # <<>>
               /\ InList(written.model, written.models)
      ]_vars

\* C30: select_token with exclude_current = true and a current key set returns
\* None or a token that is enabled, not expired, unlimited or with more quota
\* left than the minimum threshold, and of another key than the current one
C30_SelectedTokenUsable ==
    ( /\ ret.op = "select_token"
      /\ ret.exclude_current
      /\ ret.current_key # <<>>
      /\ ret.value # None )
    => LET token == ret.value[1]
       IN  /\ token.status = 1
           /\ (token.expired_time = 0 \/ token.expired_time > ret.time)
           /\ (token.unlimited_quota
                  \/ token.remain_quota > min_quota_threshold)
           /\ token.key # KeyBase(ret.current_key)


====
